---- MODULE Spec2Model ----
(***************************************************************************)
(* Model of the stm32x / nucX1 NOR-flash drivers of src/nucX1.c.           *)
(*                                                                         *)
(* The driver functions are modelled step by step: one action per target   *)
(* access (register write, register read, working-area allocation, buffer  *)
(* upload, algorithm run) together with the local code that follows it up  *)
(* to the next target access.  pc is the position in the running function, *)
(* stack the return positions of its callers.  The target (the debug       *)
(* transport) is the environment: every access may succeed or fail with a  *)
(* transport error, every read returns a value of a small set.             *)
(*                                                                         *)
(* 32-bit words (addresses, keys) are pairs <<high half, low half>> of     *)
(* 16-bit numbers, so that they keep their width.                          *)
(***************************************************************************)
EXTENDS Integers, Sequences, FiniteSets, TLC

VARIABLES
    halted,     \* target->state == TARGET_HALTED
    bank,       \* struct flash_bank: base, size, num_sectors, sectors
    info,       \* struct stm32x_flash_bank (bank->driver_priv)
    wa,         \* working areas of the target allocated and not freed
    log,        \* target accesses of the call in progress (status polls excepted)
    polls,      \* status reads of the busy wait in progress, or of the wait that timed out
    timed_out,  \* a busy wait of this call gave up ("timed out waiting for flash")
    pc,         \* position in the running function; "done": no call in progress
    stack,      \* return positions of the callers
    ret,        \* value returned by the function that returned last
    call,       \* the driver entry point called last, with its arguments
    wr,         \* locals of stm32x_write
    wb,         \* locals of stm32x_write_block
    wsb,        \* locals of stm32x_wait_status_busy
    er          \* locals of stm32x_erase

vars == <<halted, bank, info, wa, log, polls, timed_out, pc, stack, ret, call, wr, wb, wsb, er>>

----------------------------------------------------------------------------
(* Bounds of the model *)

\* working areas the target RAM can hold at once
MaxAreas == 3
\* largest byte count of a stm32x_write call
MaxCount == 5
\* largest sector count of a probed bank
MaxSectors == 3

----------------------------------------------------------------------------
(* 32-bit words *)

Half == 256 * 256

\* the word of a number below 2^31
W(n) == <<n \div Half, n % Half>>

\* uint32_t addition, wrapping at 2^32
Add32(w, n) ==
    LET lo == w[2] + (n % Half)
        hi == w[1] + (n \div Half) + (lo \div Half)
    IN  <<hi % Half, lo % Half>>

\* (x & bit) != 0 for a single-bit mask
HasBit(x, bit) == (x \div bit) % 2 = 1

----------------------------------------------------------------------------
(* Register map and bits of the stm32x flash controller *)

STM32_FLASH_KEYR == <<16386, 8196>>     \* 0x40022004
STM32_FLASH_SR   == <<16386, 8204>>     \* 0x4002200C
STM32_FLASH_CR   == <<16386, 8208>>     \* 0x40022010
STM32_FLASH_AR   == <<16386, 8212>>     \* 0x40022014

FLASH_PG   == 1
FLASH_PER  == 2
FLASH_MER  == 4
FLASH_STRT == 64
FLASH_LOCK == 128

FLASH_BSY      == 1
FLASH_PGERR    == 4
FLASH_WRPRTERR == 16
FLASH_EOP      == 32

KEY1 == <<17767, 291>>                  \* 0x45670123
KEY2 == <<52719, 35243>>                \* 0xCDEF89AB

FLASH_OFFSET_B0 == 0
FLASH_OFFSET_B1 == 64

\* error codes
ERROR_OK == "ERROR_OK"
ERROR_FAIL == "ERROR_FAIL"
ERROR_TARGET_NOT_HALTED == "ERROR_TARGET_NOT_HALTED"
ERROR_TARGET_RESOURCE_NOT_AVAILABLE == "ERROR_TARGET_RESOURCE_NOT_AVAILABLE"
ERROR_FLASH_DST_BREAKS_ALIGNMENT == "ERROR_FLASH_DST_BREAKS_ALIGNMENT"

\* errors of the debug transport: opaque to the driver
TransportErrors == {"ERROR_JTAG_DEVICE_ERROR", "ERROR_TARGET_TIMEOUT"}

\* what a target access returns
AccessResults == {ERROR_OK} \cup TransportErrors

\* values the flash status register can show
StatusValues == {0, FLASH_BSY, FLASH_EOP, FLASH_PGERR, FLASH_WRPRTERR,
                 FLASH_PGERR + FLASH_WRPRTERR, FLASH_PGERR + FLASH_EOP}

\* bytes of the caller's buffer: two fixed contents, chosen by the call
BufByte(p, i) == IF p = 0 THEN (16 * i + 1) % 256 ELSE (255 - 3 * i) % 256

----------------------------------------------------------------------------
(* The flash bank as stm32x_probe leaves it *)

\* sector table built by the probe loop
ProbedSectors(n, page_size) ==
    [i \in 0 .. n - 1 |->
        [offset |-> i * page_size, size |-> page_size,
         is_erased |-> -1, is_protected |-> 1]]

\* medium density device (id 0x410) reporting n kbytes of flash
MediumDensityBank(n) ==
    [base |-> <<2048, 0>>, size |-> n * 1024, num_sectors |-> n,
     sectors |-> ProbedSectors(n, 1024)]

MediumDensityInfo ==
    [probed |-> 1, ppage_size |-> 4, has_dual_banks |-> FALSE,
     register_offset |-> FLASH_OFFSET_B0, write_algorithm |-> 0]

\* second bank of an xl density device (id 0x430) reporting 512 + 2n kbytes
XlBank1(n) ==
    [base |-> <<2056, 0>>, size |-> n * 2048, num_sectors |-> n,
     sectors |-> ProbedSectors(n, 2048)]

XlBank1Info ==
    [probed |-> 1, ppage_size |-> 2, has_dual_banks |-> TRUE,
     register_offset |-> FLASH_OFFSET_B1, write_algorithm |-> 0]

----------------------------------------------------------------------------
(* Target access port *)

\* one access of the target, as the target saw it
Acc(op, addr, val, res, arg) ==
    [op |-> op, addr |-> addr, val |-> val, res |-> res, arg |-> arg]

\* address of working area h in target RAM
WorkAreaAddr(h) == Add32(<<8192, 0>>, h * 16384)

\* the working area an allocation hands out: the lowest free one
FreeAreas == (1 .. MaxAreas) \ wa
NextArea == CHOOSE h \in FreeAreas : \A g \in FreeAreas : h <= g

\* results target_alloc_working_area can give now
AllocResults ==
    IF FreeAreas = {} THEN {ERROR_TARGET_RESOURCE_NOT_AVAILABLE}
    ELSE {ERROR_OK, ERROR_TARGET_RESOURCE_NOT_AVAILABLE}

stm32x_get_flash_reg(reg) == Add32(reg, info.register_offset)

----------------------------------------------------------------------------
(* Calls and returns *)

NoWr == [bufpos |-> 0, words_remaining |-> 0, bytes_remaining |-> 0,
         address |-> <<0, 0>>, bytes_written |-> 0]
NoWb == [buffer_size |-> 0, source |-> 0, address |-> <<0, 0>>,
         count |-> 0, bufpos |-> 0, retval |-> ERROR_OK]
NoWsb == [timeout |-> 0]
NoEr == [i |-> 0, first |-> 0, last |-> 0]

Return(rv) ==
    /\ pc' = Head(stack)
    /\ stack' = Tail(stack)
    /\ ret' = rv

\* enter stm32x_wait_status_busy(bank, timeout), to come back at `back`
CallWait(timeout, back) ==
    /\ pc' = "wsb_read"
    /\ stack' = <<back>> \o stack
    /\ wsb' = [timeout |-> timeout]
    /\ polls' = 0
    /\ timed_out' = timed_out
    /\ ret' = ret

----------------------------------------------------------------------------
(* stm32x_wait_status_busy *)

WAIT_WRITE == 5
WAIT_ERASE == 100

\* faulty variant: one more turn before giving up
WsbTimedOut_Late(timeout) == timeout < 0

\* timeout-- <= 0
WsbTimedOut(timeout) == timeout <= 0

\* status & (FLASH_WRPRTERR | FLASH_PGERR)
WsbErrorBits(status) ==
    (IF HasBit(status, FLASH_WRPRTERR) THEN FLASH_WRPRTERR ELSE 0)
    + (IF HasBit(status, FLASH_PGERR) THEN FLASH_PGERR ELSE 0)

\* the bits written to the status register to clear the errors
WsbClearValue(status) == FLASH_WRPRTERR + FLASH_PGERR

\* one turn of the poll loop: read the status register, then leave the loop
\* (busy clear: report and clear the error bits), time out, or go round again
stm32x_wait_status_busy ==
    /\ pc = "wsb_read"
    /\ \E res \in AccessResults, status \in StatusValues, wres \in AccessResults :
        IF res # ERROR_OK
        THEN /\ Return(res)
             /\ wsb' = NoWsb /\ polls' = 0 /\ log' = log /\ timed_out' = timed_out
        ELSE IF ~HasBit(status, FLASH_BSY)
        THEN /\ Return(IF WsbErrorBits(status) # 0 THEN ERROR_FAIL ELSE ERROR_OK)
             /\ log' = IF WsbErrorBits(status) # 0
                       THEN Append(log, Acc("w32", stm32x_get_flash_reg(STM32_FLASH_SR),
                                            W(WsbClearValue(status)), wres, <<status>>))
                       ELSE log
             /\ wsb' = NoWsb /\ polls' = 0 /\ timed_out' = timed_out
        ELSE IF WsbTimedOut(wsb.timeout)
        THEN /\ Return(ERROR_FAIL)
             /\ wsb' = NoWsb /\ polls' = polls + 1 /\ log' = log /\ timed_out' = TRUE
        ELSE /\ wsb' = [timeout |-> wsb.timeout - 1]
             /\ polls' = polls + 1
             /\ UNCHANGED <<pc, stack, ret, log, timed_out>>
    /\ UNCHANGED <<halted, bank, info, wa, call, wr, wb, er>>

----------------------------------------------------------------------------
(* stm32x_write_block *)

\* sizeof(stm32x_flash_write_code)
WRITE_CODE_SIZE == 40
\* uint32_t buffer_size = 16384
FIRST_BUFFER_SIZE == 16384
\* if (buffer_size <= 256)
MIN_BUFFER_SIZE == 256

\* buffer_size /= 2
WbHalve(size) == size \div 2

\* faulty variant: the test is < instead of <=
WbTooSmall_Strict(size) == size < MIN_BUFFER_SIZE

\* buffer_size <= 256: give up
WbTooSmall(size) == size <= MIN_BUFFER_SIZE

\* faulty variant: the chunk is sized in bytes where half-words are meant
WbThisRun_Bytes(count, buffer_size) ==
    IF count > buffer_size THEN buffer_size ELSE count

\* thisrun_count = (count > (buffer_size / 2)) ? (buffer_size / 2) : count
WbThisRun(count, buffer_size) ==
    IF count > buffer_size \div 2 THEN buffer_size \div 2 ELSE count

\* faulty variant: the test of FLASH_PGERR is missing
WbErrorBit_NoPgerr(status) ==
    IF HasBit(status, FLASH_WRPRTERR) THEN FLASH_WRPRTERR ELSE 0

\* the error bit the chunk loop acts on: FLASH_PGERR is tested first
WbErrorBit(status) ==
    IF HasBit(status, FLASH_PGERR) THEN FLASH_PGERR
    ELSE IF HasBit(status, FLASH_WRPRTERR) THEN FLASH_WRPRTERR
    ELSE 0

\* locals of stm32x_write_block(bank, buffer, offset, count) at entry
WbEntry(bufpos, offset, count) ==
    [buffer_size |-> FIRST_BUFFER_SIZE, source |-> 0,
     address |-> Add32(bank.base, offset),
     count |-> count, bufpos |-> bufpos, retval |-> ERROR_OK]

\* faulty variant: the return after the failed allocation is missing
WbNoAlgorithmArea_GoesOn ==
    /\ pc' = "wb_upload_code"
    /\ UNCHANGED <<stack, ret, wb, wa, info>>

\* no working area for the write code: return without a block write
WbNoAlgorithmArea ==
    /\ Return(ERROR_TARGET_RESOURCE_NOT_AVAILABLE)
    /\ wb' = NoWb
    /\ UNCHANGED <<wa, info>>

\* target_alloc_working_area for the write code
WbAllocAlgorithm ==
    /\ pc = "wb_alloc_algo"
    /\ \E res \in AllocResults :
        IF res # ERROR_OK
        THEN /\ log' = Append(log, Acc("alloc", <<0, 0>>, W(WRITE_CODE_SIZE), res, <<>>))
             /\ WbNoAlgorithmArea
        ELSE /\ log' = Append(log, Acc("alloc", WorkAreaAddr(NextArea),
                                       W(WRITE_CODE_SIZE), res, <<>>))
             /\ wa' = wa \cup {NextArea}
             /\ info' = [info EXCEPT !.write_algorithm = NextArea]
             /\ pc' = "wb_upload_code"
             /\ UNCHANGED <<stack, ret, wb>>
    /\ UNCHANGED <<halted, bank, polls, timed_out, call, wr, wsb, er>>

\* what the failed upload of the write code leaves behind before returning
WbUploadFailed(res) ==
    /\ Return(res)
    /\ wb' = NoWb
    /\ UNCHANGED <<wa, info>>

\* target_write_buffer of the write code into its working area
WbUploadCode ==
    /\ pc = "wb_upload_code"
    /\ \E res \in AccessResults :
        /\ log' = Append(log, Acc("wbuf", WorkAreaAddr(info.write_algorithm),
                                  W(WRITE_CODE_SIZE), res, <<"code">>))
        /\ IF res # ERROR_OK
           THEN WbUploadFailed(res)
           ELSE /\ pc' = "wb_alloc_source"
                /\ UNCHANGED <<stack, ret, wb, wa, info>>
    /\ UNCHANGED <<halted, bank, polls, timed_out, call, wr, wsb, er>>

\* target_alloc_working_area_try for the data buffer, halving on failure
WbAllocSource ==
    /\ pc = "wb_alloc_source"
    /\ \E res \in AllocResults :
        IF res = ERROR_OK
        THEN /\ log' = Append(log, Acc("alloc", WorkAreaAddr(NextArea),
                                       W(wb.buffer_size), res, <<>>))
             /\ wa' = wa \cup {NextArea}
             /\ wb' = [wb EXCEPT !.source = NextArea]
             /\ pc' = IF wb.count > 0 THEN "wb_stage" ELSE "wb_free"
             /\ UNCHANGED <<stack, ret, info>>
        ELSE IF WbTooSmall(WbHalve(wb.buffer_size))
        THEN /\ log' = log
                    \o <<Acc("alloc", <<0, 0>>, W(wb.buffer_size), res, <<>>)>>
                    \o (IF info.write_algorithm # 0
                        THEN <<Acc("free", WorkAreaAddr(info.write_algorithm),
                                   <<0, 0>>, ERROR_OK, <<>>)>>
                        ELSE <<>>)
             /\ wa' = wa \ {info.write_algorithm}
             /\ info' = [info EXCEPT !.write_algorithm = 0]
             /\ Return(ERROR_TARGET_RESOURCE_NOT_AVAILABLE)
             /\ wb' = NoWb
        ELSE /\ log' = Append(log, Acc("alloc", <<0, 0>>, W(wb.buffer_size), res, <<>>))
             /\ wb' = [wb EXCEPT !.buffer_size = WbHalve(wb.buffer_size)]
             /\ UNCHANGED <<pc, stack, ret, wa, info>>
    /\ UNCHANGED <<halted, bank, polls, timed_out, call, wr, wsb, er>>

\* target_write_buffer of the next chunk into the data buffer
WbStage ==
    /\ pc = "wb_stage"
    /\ \E res \in AccessResults :
        /\ log' = Append(log, Acc("wbuf", WorkAreaAddr(wb.source),
                                  W(WbThisRun(wb.count, wb.buffer_size) * 2), res,
                                  <<"data", wb.bufpos>>))
        /\ IF res # ERROR_OK
           THEN /\ wb' = [wb EXCEPT !.retval = res]
                /\ pc' = "wb_free"
           ELSE /\ pc' = "wb_run"
                /\ wb' = wb
    /\ UNCHANGED <<halted, bank, info, wa, polls, timed_out, stack, ret, call, wr, wsb, er>>

\* target_run_algorithm on the chunk, then the checks of the returned status
WbRun ==
    /\ pc = "wb_run"
    /\ \E res \in AccessResults, status \in StatusValues, wres \in AccessResults :
        LET thisrun == WbThisRun(wb.count, wb.buffer_size)
            params == <<WorkAreaAddr(wb.source), wb.address, thisrun,
                        info.register_offset>>
        IN  IF res # ERROR_OK
            THEN /\ log' = Append(log, Acc("run", WorkAreaAddr(info.write_algorithm),
                                           <<0, 0>>, res, params))
                 /\ wb' = [wb EXCEPT !.retval = res]
                 /\ pc' = "wb_free"
            ELSE IF WbErrorBit(status) # 0
            THEN /\ log' = log
                        \o <<Acc("run", WorkAreaAddr(info.write_algorithm),
                                 W(status), res, params)>>
                        \o <<Acc("w32", STM32_FLASH_SR, W(WbErrorBit(status)),
                                 wres, <<>>)>>
                 /\ wb' = [wb EXCEPT !.retval = ERROR_FAIL]
                 /\ pc' = "wb_free"
            ELSE /\ log' = Append(log, Acc("run", WorkAreaAddr(info.write_algorithm),
                                           W(status), res, params))
                 /\ wb' = [wb EXCEPT !.bufpos = wb.bufpos + thisrun * 2,
                                     !.address = Add32(wb.address, thisrun * 2),
                                     !.count = wb.count - thisrun]
                 /\ pc' = IF wb.count - thisrun > 0 THEN "wb_stage" ELSE "wb_free"
    /\ UNCHANGED <<halted, bank, info, wa, polls, timed_out, stack, ret, call, wr, wsb, er>>

\* after the loop: free both working areas and return retval
WbFree ==
    /\ pc = "wb_free"
    /\ log' = log
           \o <<Acc("free", WorkAreaAddr(wb.source), <<0, 0>>, ERROR_OK, <<>>)>>
           \o <<Acc("free", WorkAreaAddr(info.write_algorithm), <<0, 0>>, ERROR_OK, <<>>)>>
    /\ wa' = wa \ {wb.source, info.write_algorithm}
    /\ info' = [info EXCEPT !.write_algorithm = 0]
    /\ Return(wb.retval)
    /\ wb' = NoWb
    /\ UNCHANGED <<halted, bank, polls, timed_out, call, wr, wsb, er>>

----------------------------------------------------------------------------
(* stm32x_write *)

\* offsets and buffer contents the write calls are made with
WriteOffsets == {0, 1, 2}
BufferContents == {0, 1}

\* faulty variant: the test is (offset & 0x3) == 0x3
WrMisaligned_Mask3(offset) == offset % 4 = 3

\* offset & 0x1
WrMisaligned(offset) == offset % 2 = 1

\* faulty variant: every failure of the block write falls back to single writes
WrFallsBack_AnyError(retval) == retval # ERROR_OK

\* the block write result that makes stm32x_write go on with single writes
WrFallsBack(retval) == retval = ERROR_TARGET_RESOURCE_NOT_AVAILABLE

\* where the code after the block write goes: the half-word loop, the odd
\* last byte, or the final lock
WrLoopPc(w) ==
    IF w.words_remaining > 0 THEN "wr_pg"
    ELSE IF w.bytes_remaining # 0 THEN "wr_tail_pg"
    ELSE "wr_lock"

\* memcpy(&value, buffer + bytes_written, sizeof(uint16_t))
WrHalfWord(p, pos) == BufByte(p, pos) + 256 * BufByte(p, pos + 1)

\* faulty variant: the padding is uint16_t value = 0
WrLastByte_ZeroPad(p, pos) == BufByte(p, pos)

\* uint16_t value = 0xffff; memcpy(&value, buffer + bytes_written, bytes_remaining)
WrLastByte(p, pos) == BufByte(p, pos) + 256 * 255

\* entry of stm32x_write: the halted and alignment checks
stm32x_write ==
    /\ pc = "done"
    /\ \E h \in BOOLEAN, offset \in WriteOffsets, count \in 0 .. MaxCount,
          p \in BufferContents :
        /\ halted' = h
        /\ call' = [fn |-> "stm32x_write", offset |-> offset, count |-> count, buf |-> p]
        /\ log' = <<>>
        /\ polls' = 0
        /\ timed_out' = FALSE
        /\ IF ~h
           THEN /\ ret' = ERROR_TARGET_NOT_HALTED
                /\ UNCHANGED <<pc, stack, wr>>
           ELSE IF WrMisaligned(offset)
           THEN /\ ret' = ERROR_FLASH_DST_BREAKS_ALIGNMENT
                /\ UNCHANGED <<pc, stack, wr>>
           ELSE /\ pc' = "wr_key1"
                /\ stack' = <<"done">>
                /\ ret' = ERROR_OK
                /\ wr' = [bufpos |-> 0, words_remaining |-> count \div 2,
                          bytes_remaining |-> count % 2,
                          address |-> Add32(bank.base, offset),
                          bytes_written |-> 0]
    /\ UNCHANGED <<bank, info, wa, wb, wsb, er>>

\* unlock flash registers: KEY1
WrKey1 ==
    /\ pc = "wr_key1"
    /\ \E res \in AccessResults :
        /\ log' = Append(log, Acc("w32", stm32x_get_flash_reg(STM32_FLASH_KEYR),
                                  KEY1, res, <<>>))
        /\ IF res # ERROR_OK
           THEN Return(res) /\ wr' = NoWr
           ELSE pc' = "wr_key2" /\ UNCHANGED <<stack, ret, wr>>
    /\ UNCHANGED <<halted, bank, info, wa, polls, timed_out, call, wb, wsb, er>>

\* unlock flash registers: KEY2; then try the block write if there are half-words
WrKey2 ==
    /\ pc = "wr_key2"
    /\ \E res \in AccessResults :
        /\ log' = Append(log, Acc("w32", stm32x_get_flash_reg(STM32_FLASH_KEYR),
                                  KEY2, res, <<>>))
        /\ IF res # ERROR_OK
           THEN Return(res) /\ wr' = NoWr /\ wb' = wb
           ELSE IF wr.words_remaining > 0
           THEN /\ pc' = "wb_alloc_algo"
                /\ stack' = <<"wr_after_block">> \o stack
                /\ wb' = WbEntry(wr.bufpos, call.offset, wr.words_remaining)
                /\ UNCHANGED <<ret, wr>>
           ELSE /\ pc' = WrLoopPc(wr)
                /\ UNCHANGED <<stack, ret, wr, wb>>
    /\ UNCHANGED <<halted, bank, info, wa, polls, timed_out, call, wsb, er>>

\* back from stm32x_write_block: done, fall back to single writes, or fail
WrAfterBlock ==
    /\ pc = "wr_after_block"
    /\ IF ret = ERROR_OK
       THEN LET w == [wr EXCEPT !.bufpos = wr.bufpos + wr.words_remaining * 2,
                                !.address = Add32(wr.address, wr.words_remaining * 2),
                                !.words_remaining = 0]
            IN  wr' = w /\ pc' = WrLoopPc(w) /\ UNCHANGED <<stack, ret>>
       ELSE IF WrFallsBack(ret)
       THEN pc' = WrLoopPc(wr) /\ UNCHANGED <<stack, ret, wr>>
       ELSE Return(ret) /\ wr' = NoWr
    /\ UNCHANGED <<halted, bank, info, wa, log, polls, timed_out, call, wb, wsb, er>>

\* half-word loop: set the programming bit
WrPg ==
    /\ pc = "wr_pg"
    /\ \E res \in AccessResults :
        /\ log' = Append(log, Acc("w32", stm32x_get_flash_reg(STM32_FLASH_CR),
                                  W(FLASH_PG), res, <<>>))
        /\ IF res # ERROR_OK
           THEN Return(res) /\ wr' = NoWr
           ELSE pc' = "wr_data" /\ UNCHANGED <<stack, ret, wr>>
    /\ UNCHANGED <<halted, bank, info, wa, polls, timed_out, call, wb, wsb, er>>

\* half-word loop: write the half-word, then wait for the flash
WrData ==
    /\ pc = "wr_data"
    /\ \E res \in AccessResults :
        /\ log' = Append(log, Acc("w16", wr.address,
                                  W(WrHalfWord(call.buf, wr.bufpos + wr.bytes_written)),
                                  res, <<>>))
        /\ IF res # ERROR_OK
           THEN Return(res) /\ wr' = NoWr /\ UNCHANGED <<wsb, polls, timed_out>>
           ELSE CallWait(WAIT_WRITE, "wr_after_wait") /\ wr' = wr
    /\ UNCHANGED <<halted, bank, info, wa, call, wb, er>>

\* half-word loop: back from the wait, next half-word
WrAfterWait ==
    /\ pc = "wr_after_wait"
    /\ IF ret # ERROR_OK
       THEN Return(ret) /\ wr' = NoWr
       ELSE LET w == [wr EXCEPT !.bytes_written = wr.bytes_written + 2,
                                !.words_remaining = wr.words_remaining - 1,
                                !.address = Add32(wr.address, 2)]
            IN  wr' = w /\ pc' = WrLoopPc(w) /\ UNCHANGED <<stack, ret>>
    /\ UNCHANGED <<halted, bank, info, wa, log, polls, timed_out, call, wb, wsb, er>>

\* odd last byte: set the programming bit
WrTailPg ==
    /\ pc = "wr_tail_pg"
    /\ \E res \in AccessResults :
        /\ log' = Append(log, Acc("w32", stm32x_get_flash_reg(STM32_FLASH_CR),
                                  W(FLASH_PG), res, <<>>))
        /\ IF res # ERROR_OK
           THEN Return(res) /\ wr' = NoWr
           ELSE pc' = "wr_tail_data" /\ UNCHANGED <<stack, ret, wr>>
    /\ UNCHANGED <<halted, bank, info, wa, polls, timed_out, call, wb, wsb, er>>

\* odd last byte: write it padded to a half-word, then wait for the flash
WrTailData ==
    /\ pc = "wr_tail_data"
    /\ \E res \in AccessResults :
        /\ log' = Append(log, Acc("w16", wr.address,
                                  W(WrLastByte(call.buf, wr.bufpos + wr.bytes_written)),
                                  res, <<>>))
        /\ IF res # ERROR_OK
           THEN Return(res) /\ wr' = NoWr /\ UNCHANGED <<wsb, polls, timed_out>>
           ELSE CallWait(WAIT_WRITE, "wr_tail_after_wait") /\ wr' = wr
    /\ UNCHANGED <<halted, bank, info, wa, call, wb, er>>

\* odd last byte: back from the wait
WrTailAfterWait ==
    /\ pc = "wr_tail_after_wait"
    /\ IF ret # ERROR_OK
       THEN Return(ret) /\ wr' = NoWr
       ELSE pc' = "wr_lock" /\ UNCHANGED <<stack, ret, wr>>
    /\ UNCHANGED <<halted, bank, info, wa, log, polls, timed_out, call, wb, wsb, er>>

\* return target_write_u32(target, STM32_FLASH_CR, FLASH_LOCK)
WrLock ==
    /\ pc = "wr_lock"
    /\ \E res \in AccessResults :
        /\ log' = Append(log, Acc("w32", STM32_FLASH_CR, W(FLASH_LOCK), res, <<>>))
        /\ Return(res)
        /\ wr' = NoWr
    /\ UNCHANGED <<halted, bank, info, wa, polls, timed_out, call, wb, wsb, er>>

----------------------------------------------------------------------------
(* nucX1_write_block: the write entry point of the nucX1 driver *)

\* the whole function: count = count / 2, the alignment check, return retval;
\* the block write below the check is compiled out (#if 0)
nucX1_write_block ==
    /\ pc = "done"
    /\ \E h \in BOOLEAN, offset \in WriteOffsets, count \in 0 .. MaxCount,
          p \in BufferContents :
        /\ halted' = h
        /\ call' = [fn |-> "nucX1_write_block", offset |-> offset,
                    count |-> count, buf |-> p]
        /\ ret' = IF WrMisaligned(offset) THEN ERROR_FLASH_DST_BREAKS_ALIGNMENT
                  ELSE ERROR_OK
    /\ log' = <<>>
    /\ polls' = 0
    /\ timed_out' = FALSE
    /\ UNCHANGED <<bank, info, wa, pc, stack, wr, wb, wsb, er>>

----------------------------------------------------------------------------
(* The write path: stm32x_write called again and again on a probed bank *)

ProbedBanks ==
    {<<MediumDensityBank(n), MediumDensityInfo>> : n \in 1 .. MaxSectors}
    \cup {<<XlBank1(n), XlBank1Info>> : n \in 1 .. MaxSectors}

InitIdle ==
    /\ halted = TRUE
    /\ wa = {}
    /\ log = <<>>
    /\ polls = 0
    /\ timed_out = FALSE
    /\ pc = "done"
    /\ stack = <<>>
    /\ ret = ERROR_OK
    /\ call = [fn |-> "none"]
    /\ wr = NoWr
    /\ wb = NoWb
    /\ wsb = NoWsb
    /\ er = NoEr

InitWrite ==
    /\ InitIdle
    /\ \E b \in ProbedBanks :
        /\ b[1].num_sectors = MaxSectors
        /\ bank = b[1]
        /\ info = b[2]

WriteBlockSteps ==
    \/ WbAllocAlgorithm
    \/ WbUploadCode
    \/ WbAllocSource
    \/ WbStage
    \/ WbRun
    \/ WbFree

NextWrite ==
    \/ stm32x_write
    \/ nucX1_write_block
    \/ WrKey1
    \/ WrKey2
    \/ WrAfterBlock
    \/ WrPg
    \/ WrData
    \/ WrAfterWait
    \/ WrTailPg
    \/ WrTailData
    \/ WrTailAfterWait
    \/ WrLock
    \/ WriteBlockSteps
    \/ stm32x_wait_status_busy

SpecWrite == InitWrite /\ [][NextWrite]_vars

----------------------------------------------------------------------------
(* stm32x_write_block on its own, with unit counts that need several chunks *)

\* half-word counts: one chunk whatever the buffer, and more than the smallest
\* buffers (512 and 1024 bytes) hold
BlockCounts == {1, 2, 257, 600}

stm32x_write_block ==
    /\ pc = "done"
    /\ \E offset \in {o \in WriteOffsets : ~WrMisaligned(o)}, count \in BlockCounts,
          p \in BufferContents :
        /\ call' = [fn |-> "stm32x_write_block", offset |-> offset,
                    count |-> count, buf |-> p]
        /\ wb' = WbEntry(0, offset, count)
    /\ halted' = TRUE
    /\ log' = <<>>
    /\ polls' = 0
    /\ timed_out' = FALSE
    /\ pc' = "wb_alloc_algo"
    /\ stack' = <<"done">>
    /\ ret' = ERROR_OK
    /\ UNCHANGED <<bank, info, wa, wr, wsb, er>>

NextWriteBlock ==
    \/ stm32x_write_block
    \/ WriteBlockSteps

SpecWriteBlock == InitWrite /\ [][NextWriteBlock]_vars

----------------------------------------------------------------------------
(* stm32x_mass_erase *)

\* the halted check of stm32x_mass_erase
MeEntry ==
    /\ pc = "me_entry"
    /\ IF ~halted
       THEN Return(ERROR_TARGET_NOT_HALTED)
       ELSE pc' = "me_key1" /\ UNCHANGED <<stack, ret>>
    /\ UNCHANGED <<halted, bank, info, wa, log, polls, timed_out, call, wr, wb, wsb, er>>

\* a register write of stm32x_mass_erase that returns on failure
MeWrite(at, reg, val, next) ==
    /\ pc = at
    /\ \E res \in AccessResults :
        /\ log' = Append(log, Acc("w32", stm32x_get_flash_reg(reg), val, res, <<>>))
        /\ IF res # ERROR_OK
           THEN Return(res)
           ELSE pc' = next /\ UNCHANGED <<stack, ret>>
    /\ UNCHANGED <<halted, bank, info, wa, polls, timed_out, call, wr, wb, wsb, er>>

MeKey1 == MeWrite("me_key1", STM32_FLASH_KEYR, KEY1, "me_key2")
MeKey2 == MeWrite("me_key2", STM32_FLASH_KEYR, KEY2, "me_mer")
MeMer == MeWrite("me_mer", STM32_FLASH_CR, W(FLASH_MER), "me_strt")

\* start the mass erase, then wait for the flash
MeStrt ==
    /\ pc = "me_strt"
    /\ \E res \in AccessResults :
        /\ log' = Append(log, Acc("w32", stm32x_get_flash_reg(STM32_FLASH_CR),
                                  W(FLASH_MER + FLASH_STRT), res, <<>>))
        /\ IF res # ERROR_OK
           THEN Return(res) /\ UNCHANGED <<wsb, polls, timed_out>>
           ELSE CallWait(WAIT_ERASE, "me_after_wait")
    /\ UNCHANGED <<halted, bank, info, wa, call, wr, wb, er>>

MeAfterWait ==
    /\ pc = "me_after_wait"
    /\ IF ret # ERROR_OK
       THEN Return(ret)
       ELSE pc' = "me_lock" /\ UNCHANGED <<stack, ret>>
    /\ UNCHANGED <<halted, bank, info, wa, log, polls, timed_out, call, wr, wb, wsb, er>>

\* lock the flash again; the result of the write is the result of the call
MeLock ==
    /\ pc = "me_lock"
    /\ \E res \in AccessResults :
        /\ log' = Append(log, Acc("w32", stm32x_get_flash_reg(STM32_FLASH_CR),
                                  W(FLASH_LOCK), res, <<>>))
        /\ Return(res)
    /\ UNCHANGED <<halted, bank, info, wa, polls, timed_out, call, wr, wb, wsb, er>>

MassEraseSteps ==
    \/ MeEntry
    \/ MeKey1
    \/ MeKey2
    \/ MeMer
    \/ MeStrt
    \/ MeAfterWait
    \/ MeLock

----------------------------------------------------------------------------
(* stm32x_erase *)

\* faulty variant: last is compared with num_sectors
EraseIsMass_OffByOne(first, last, num_sectors) == first = 0 /\ last = num_sectors

\* (first == 0) && (last == (bank->num_sectors - 1))
EraseIsMass(first, last, num_sectors) == first = 0 /\ last = num_sectors - 1

\* entry of stm32x_erase: the halted check and the choice of the mass erase
stm32x_erase ==
    /\ pc = "done"
    /\ \E h \in BOOLEAN, first \in 0 .. bank.num_sectors - 1,
          last \in 0 .. bank.num_sectors - 1 :
        /\ first <= last
        /\ halted' = h
        /\ call' = [fn |-> "stm32x_erase", first |-> first, last |-> last,
                    sectors |-> bank.sectors]
        /\ IF ~h
           THEN /\ ret' = ERROR_TARGET_NOT_HALTED
                /\ UNCHANGED <<pc, stack, er>>
           ELSE IF EraseIsMass(first, last, bank.num_sectors)
           THEN /\ pc' = "me_entry"
                /\ stack' = <<"done">>
                /\ ret' = ERROR_OK
                /\ er' = er
           ELSE /\ pc' = "er_key1"
                /\ stack' = <<"done">>
                /\ ret' = ERROR_OK
                /\ er' = [i |-> first, first |-> first, last |-> last]
    /\ log' = <<>>
    /\ polls' = 0
    /\ timed_out' = FALSE
    /\ UNCHANGED <<bank, info, wa, wr, wb, wsb>>

\* a register write of stm32x_erase that returns on failure
ErWrite(at, reg, val, next) ==
    /\ pc = at
    /\ \E res \in AccessResults :
        /\ log' = Append(log, Acc("w32", stm32x_get_flash_reg(reg), val, res, <<>>))
        /\ IF res # ERROR_OK
           THEN Return(res) /\ er' = NoEr
           ELSE pc' = next /\ UNCHANGED <<stack, ret, er>>
    /\ UNCHANGED <<halted, bank, info, wa, polls, timed_out, call, wr, wb, wsb>>

\* faulty variant: the second key is written first
ErKey1_Key2First == ErWrite("er_key1", STM32_FLASH_KEYR, KEY2, "er_key2")

\* unlock flash registers: KEY1
ErKey1 == ErWrite("er_key1", STM32_FLASH_KEYR, KEY1, "er_key2")
ErKey2 == ErWrite("er_key2", STM32_FLASH_KEYR, KEY2,
                  IF er.i <= er.last THEN "er_per" ELSE "er_lock")
ErPer == ErWrite("er_per", STM32_FLASH_CR, W(FLASH_PER), "er_ar")
ErAr == ErWrite("er_ar", STM32_FLASH_AR,
                Add32(bank.base, bank.sectors[er.i].offset), "er_strt")

\* start the erase of sector i, then wait for the flash
ErStrt ==
    /\ pc = "er_strt"
    /\ \E res \in AccessResults :
        /\ log' = Append(log, Acc("w32", stm32x_get_flash_reg(STM32_FLASH_CR),
                                  W(FLASH_PER + FLASH_STRT), res, <<>>))
        /\ IF res # ERROR_OK
           THEN Return(res) /\ er' = NoEr /\ UNCHANGED <<wsb, polls, timed_out>>
           ELSE CallWait(WAIT_ERASE, "er_after_wait") /\ er' = er
    /\ UNCHANGED <<halted, bank, info, wa, call, wr, wb>>

\* faulty variant: the whole table is marked at the first erased sector
ErMarkErased_All(sectors, i) ==
    [s \in DOMAIN sectors |-> [sectors[s] EXCEPT !.is_erased = 1]]

\* bank->sectors[i].is_erased = 1
ErMarkErased(sectors, i) == [sectors EXCEPT ![i].is_erased = 1]

\* faulty variant: the result of the wait is not looked at
ErWaitFailed_Ignored(retval) == FALSE

\* if (retval != ERROR_OK) return retval, after the wait
ErWaitFailed(retval) == retval # ERROR_OK

\* back from the wait: give up, or mark the sector erased and go to the next
ErAfterWait ==
    /\ pc = "er_after_wait"
    /\ IF ErWaitFailed(ret)
       THEN Return(ret) /\ er' = NoEr /\ bank' = bank
       ELSE /\ bank' = [bank EXCEPT !.sectors = ErMarkErased(bank.sectors, er.i)]
            /\ er' = [er EXCEPT !.i = er.i + 1]
            /\ pc' = IF er.i + 1 <= er.last THEN "er_per" ELSE "er_lock"
            /\ UNCHANGED <<stack, ret>>
    /\ UNCHANGED <<halted, info, wa, log, polls, timed_out, call, wr, wb, wsb>>

\* lock the flash again after the last sector
ErLock ==
    /\ pc = "er_lock"
    /\ \E res \in AccessResults :
        /\ log' = Append(log, Acc("w32", stm32x_get_flash_reg(STM32_FLASH_CR),
                                  W(FLASH_LOCK), res, <<>>))
        /\ Return(res)
        /\ er' = NoEr
    /\ UNCHANGED <<halted, bank, info, wa, polls, timed_out, call, wr, wb, wsb>>

InitErase ==
    /\ InitIdle
    /\ \E b \in ProbedBanks :
        /\ bank = b[1]
        /\ info = b[2]

NextErase ==
    \/ stm32x_erase
    \/ ErKey1
    \/ ErKey2
    \/ ErPer
    \/ ErAr
    \/ ErStrt
    \/ ErAfterWait
    \/ ErLock
    \/ MassEraseSteps
    \/ stm32x_wait_status_busy

SpecErase == InitErase /\ [][NextErase]_vars

----------------------------------------------------------------------------
(* Reading the record of target accesses *)

\* positions of the log holding an access of one of the kinds ops
LogAt(ops) == {i \in DOMAIN log : log[i].op \in ops}

\* the register writes among the accesses
RegWrites == LogAt({"w32", "w16"})

\* a write of value v to register reg is in the log
Wrote(reg, v) == \E i \in RegWrites : log[i].addr = reg /\ log[i].val = W(v)

\* the flash controller registers of the bank
BankReg(reg) == Add32(reg, info.register_offset)

\* stm32x_write_block has returned to the flash core
WriteBlockReturned == pc = "done" /\ call.fn = "stm32x_write_block"

\* working areas handed out and given back during the call
Allocated == {i \in LogAt({"alloc"}) : log[i].res = ERROR_OK}
Freed == LogAt({"free"})

\* the allocation attempts for the data buffer: all but the first allocation
StagingAllocs == SelectSeq(Tail(log), LAMBDA e : e.op = "alloc")

\* chunks staged or run
ChunkAccesses ==
    {i \in LogAt({"wbuf", "run"}) : log[i].op = "run" \/ log[i].arg[1] = "data"}

----------------------------------------------------------------------------
(* Claims on stm32x_write_block, checked under SpecWriteBlock *)

\* C1: when stm32x_write_block returns, every working area it allocated has been
\* freed, whatever target operation failed.
C1_NoWorkingAreaLeft ==
    WriteBlockReturned => Cardinality(Allocated) = Cardinality(Freed)

\* C2: when every working-area allocation fails, stm32x_write_block returns
\* ERROR_TARGET_RESOURCE_NOT_AVAILABLE and has uploaded nothing, run nothing and
\* written no register.
C2_AllAllocationsFail ==
    (WriteBlockReturned /\ Allocated = {})
        => /\ ret = "ERROR_TARGET_RESOURCE_NOT_AVAILABLE"
           /\ LogAt({"wbuf", "run", "w32", "w16"}) = {}

C2_Witness ==
    /\ WriteBlockReturned
    /\ Allocated = {}
    /\ LogAt({"alloc"}) # {}

\* C3: the data buffer is asked for at 16384, 8192, 4096, 2048, 1024, 512 bytes in
\* that order, each attempt after a failed one; a granted buffer has one of these
\* sizes; after six failures the write code's area is freed and the call returns
\* ERROR_TARGET_RESOURCE_NOT_AVAILABLE with no chunk staged or run.
C3_Sizes == <<16384, 8192, 4096, 2048, 1024, 512>>

C3_StagingBufferSizes ==
    (call.fn = "stm32x_write_block" /\ log # <<>>) =>
        LET a == StagingAllocs
        IN  /\ Len(a) <= 6
            /\ \A i \in 1 .. Len(a) :
                /\ a[i].val = W(C3_Sizes[i])
                /\ i < Len(a) => a[i].res # ERROR_OK
            /\ wb.source # 0 =>
                /\ wb.buffer_size \in {C3_Sizes[i] : i \in 1 .. 6}
                /\ wb.buffer_size = C3_Sizes[Len(a)]
            /\ (Len(a) = 6 /\ a[6].res # ERROR_OK) =>
                /\ pc = "done"
                /\ ret = "ERROR_TARGET_RESOURCE_NOT_AVAILABLE"
                /\ log[Len(log)].op = "free"
                /\ log[Len(log)].addr = log[1].addr
                /\ Cardinality(Allocated) = Cardinality(Freed)
                /\ ChunkAccesses = {}

C3_Witness ==
    /\ WriteBlockReturned
    /\ Len(StagingAllocs) = 6
    /\ StagingAllocs[6].res # ERROR_OK

\* C7: when a run of the write code succeeds and the status it returns has
\* FLASH_PGERR or FLASH_WRPRTERR set, the bit acted on (FLASH_PGERR if set, else
\* FLASH_WRPRTERR) is written to the flash status register right after the run,
\* the call returns an error, and no chunk is staged or run after that one.
C7_FailedRuns ==
    {i \in LogAt({"run"}) :
        /\ log[i].res = ERROR_OK
        /\ HasBit(log[i].val[2], 4) \/ HasBit(log[i].val[2], 16)}

C7_StatusErrorEndsTheWrite ==
    call.fn = "stm32x_write_block" =>
        \A i \in C7_FailedRuns :
            /\ i + 1 <= Len(log)
            /\ log[i + 1].op = "w32"
            /\ log[i + 1].addr = STM32_FLASH_SR
            /\ log[i + 1].val = W(IF HasBit(log[i].val[2], 4) THEN 4 ELSE 16)
            /\ \A j \in ChunkAccesses : j <= i
            /\ pc # "done" => (pc = "wb_free" /\ wb.retval # ERROR_OK)
            /\ pc = "done" => ret # ERROR_OK

\* the case: the first of several chunks ran into an error
C7_Witness ==
    /\ WriteBlockReturned
    /\ call.count = 600
    /\ \E i \in C7_FailedRuns : log[i].arg[3] = 256 /\ HasBit(log[i].val[2], 16)

\* C8: when stm32x_write_block or stm32x_wait_status_busy returns an error on
\* reported status error bits, every reported error bit has been written back to
\* the status register, also when both bits are set.
C8_ReportedBits(status) ==
    {b \in {4, 16} : HasBit(status, b)}

C8_EveryErrorBitWrittenBack ==
    call.fn = "stm32x_write_block" =>
        \A i \in C7_FailedRuns :
            i + 1 <= Len(log) =>
                \A b \in C8_ReportedBits(log[i].val[2]) :
                    HasBit(log[i + 1].val[2], b)

----------------------------------------------------------------------------
(* Claims on stm32x_write and nucX1_write_block, checked under SpecWrite *)

\* C4: of the results of stm32x_write_block only
\* ERROR_TARGET_RESOURCE_NOT_AVAILABLE leads stm32x_write into the half-word
\* loop, with every half-word still to write; any other failure is returned at
\* once with no target access after it; after a successful block write the
\* half-word loop is not entered.
C4_OnlyResourceErrorFallsBack ==
    [][pc = "wr_after_block" =>
        /\ ret = "ERROR_TARGET_RESOURCE_NOT_AVAILABLE" =>
            /\ pc' = "wr_pg"
            /\ wr' = wr
            /\ wr.words_remaining = call.count \div 2
            /\ log' = log
        /\ ret = "ERROR_OK" =>
            /\ pc' \in {"wr_tail_pg", "wr_lock"}
            /\ wr'.words_remaining = 0
        /\ ret \notin {"ERROR_OK", "ERROR_TARGET_RESOURCE_NOT_AVAILABLE"} =>
            /\ pc' = "done"
            /\ ret' = ret
            /\ log' = log]_vars

\* the case: a chunk failed, and the last target access of stm32x_write is the
\* block write's release of its working areas
C4_Witness ==
    /\ pc = "done"
    /\ call.fn = "stm32x_write"
    /\ ret = "ERROR_FAIL"
    /\ LogAt({"run"}) # {}
    /\ log[Len(log)].op = "free"

\* the 16-bit data writes of the call, in order
C5_Data == SelectSeq(log, LAMBDA e : e.op = "w16")

\* C5: when the block write is not available and nothing fails, stm32x_write
\* issues ceil(count / 2) 16-bit writes at base + offset, base + offset + 2, ...;
\* write k carries buffer bytes 2k and 2k + 1, the low byte at the lower address,
\* and 0xFF in place of the byte past an odd count.
C5_SingleWritesCarryTheBuffer ==
    (/\ pc = "done"
     /\ call.fn = "stm32x_write"
     /\ ret = "ERROR_OK"
     /\ LogAt({"run"}) = {})
        => /\ Len(C5_Data) = (call.count + 1) \div 2
           /\ \A k \in 1 .. Len(C5_Data) :
                /\ C5_Data[k].res = "ERROR_OK"
                /\ C5_Data[k].addr = Add32(bank.base, call.offset + 2 * (k - 1))
                /\ C5_Data[k].val =
                     W(BufByte(call.buf, 2 * k - 2)
                       + 256 * (IF 2 * k - 1 < call.count
                                THEN BufByte(call.buf, 2 * k - 1) ELSE 255))

\* the case: three bytes written singly after the block write found no working area
C5_Witness ==
    /\ pc = "done"
    /\ call.fn = "stm32x_write"
    /\ ret = "ERROR_OK"
    /\ call.count = 3
    /\ LogAt({"run"}) = {}
    /\ LogAt({"alloc"}) # {}
    /\ Len(C5_Data) = 2

----------------------------------------------------------------------------
(* Claims on stm32x_erase, checked under SpecErase *)

C9_FullRange ==
    call.first = 0 /\ call.last = bank.num_sectors - 1

\* the values written to the control register of the bank, in order
C9_ControlWrites ==
    SelectSeq(log, LAMBDA e : e.op = "w32" /\ e.addr = BankReg(STM32_FLASH_CR))

C9_MassEraseCommands == <<W(4), W(4 + 64), W(128)>>

\* C9: on a halted target stm32x_erase of the whole sector range issues the mass
\* erase commands (FLASH_MER, FLASH_MER | FLASH_STRT, then the lock) and neither
\* FLASH_PER nor an address register write; any other range issues no FLASH_MER.
C9_FullRangeIsMassErase ==
    (call.fn = "stm32x_erase" /\ halted) =>
        IF C9_FullRange
        THEN /\ \A i \in RegWrites : log[i].addr # BankReg(STM32_FLASH_AR)
             /\ Len(C9_ControlWrites) <= 3
             /\ \A i \in 1 .. Len(C9_ControlWrites) :
                    C9_ControlWrites[i].val = C9_MassEraseCommands[i]
             /\ (pc = "done" /\ ret = "ERROR_OK") => Len(C9_ControlWrites) = 3
        ELSE \A i \in 1 .. Len(C9_ControlWrites) :
                    ~HasBit(C9_ControlWrites[i].val[2], 4)

\* the case: a whole bank of two sectors erased
C9_Witness ==
    /\ pc = "done"
    /\ call.fn = "stm32x_erase"
    /\ bank.num_sectors = 2
    /\ C9_FullRange
    /\ ret = "ERROR_OK"
    /\ Len(C9_ControlWrites) = 3

\* C10: when the erase of a single sector k (not the whole bank) times out
\* because the busy bit stays set, stm32x_erase returns a failure, sector k keeps
\* the erased flag it had before the call, and FLASH_LOCK is never written.
C10_TimedOutEraseLeavesSectorAndLock ==
    (/\ pc = "done"
     /\ call.fn = "stm32x_erase"
     /\ call.first = call.last
     /\ ~C9_FullRange
     /\ timed_out)
        => /\ ret # "ERROR_OK"
           /\ bank.sectors[call.first].is_erased = call.sectors[call.first].is_erased
           /\ \A i \in RegWrites : log[i].val # W(128)

\* the case: 101 status reads showed the busy bit during the erase of sector 1,
\* whose erased flag was unknown
C10_Witness ==
    /\ pc = "done"
    /\ call.fn = "stm32x_erase"
    /\ call.first = 1
    /\ call.last = 1
    /\ ~C9_FullRange
    /\ timed_out
    /\ polls = 101
    /\ call.sectors[1].is_erased = -1

----------------------------------------------------------------------------
(* Claims on the lock write of the erase routines *)

\* a register write of the call failed on the transport, or its wait was cut
\* short by a transport error or by the poll budget
C11_IoFailureOrTimeout ==
    \/ timed_out
    \/ ret \in TransportErrors

\* the write of FLASH_LOCK to the control register is in the record
C11_LockIssued == Wrote(BankReg(STM32_FLASH_CR), FLASH_LOCK)

\* C11 (stm32x_erase): when a per-sector erase returns, the lock write has been
\* issued if and only if every sector of the range went through its erase and
\* poll without a transport error or a timeout; a failed access is the last
\* target write of the call.
C11_LockIffRangeCompleted ==
    (/\ pc = "done"
     /\ call.fn = "stm32x_erase"
     /\ halted
     /\ ~C9_FullRange)
        => /\ C11_LockIssued <=>
                (~C11_IoFailureOrTimeout
                   \/ (log # <<>> /\ log[Len(log)].val = W(FLASH_LOCK)))
           /\ \A i \in RegWrites :
                (log[i].res # ERROR_OK /\ log[i].addr # BankReg(STM32_FLASH_SR))
                    => i = Len(log)

\* C12: when stm32x_erase(first, last) returns success, every sector of
\* [first, last] is marked erased, also when the range is the whole bank.
C12_SuccessMarksRangeErased ==
    (/\ pc = "done"
     /\ call.fn = "stm32x_erase"
     /\ ret = ERROR_OK)
        => \A i \in call.first .. call.last : bank.sectors[i].is_erased = 1

----------------------------------------------------------------------------
(* stm32x_probe and stm32x_auto_probe *)

\* registers read by the probes
DBGMCU_IDCODE == <<57348, 8192>>        \* 0xE0042000
FLASH_SIZE_REG == <<8191, 63456>>       \* 0x1FFFF7E0
NUCX1_SYS_BASE == <<20480, 0>>          \* 0x50000000

\* base address of the second bank of an xl density device
BANK1_BASE == <<2056, 0>>               \* 0x08080000

\* identifier words a target can answer with: the six known stm32 families,
\* 0x410 with revision bits above it, the nuc120, and unknown ones
DeviceIds ==
    {<<0, 1040>>, <<0, 1042>>, <<0, 1044>>, <<0, 1048>>, <<0, 1056>>, <<0, 1072>>,
     <<4096, 1040>>, <<1, 8192>>, <<0, 1041>>, <<0, 0>>}

\* flash sizes in kbytes a target of a family reports: xl density devices have
\* more than the 512 kbytes of their first bank
ReportedKb(code) == IF code = 1072 THEN {516, 520} ELSE {2, 4}

\* what a read leaves in its destination: a value of the target when it
\* succeeds, nothing the caller looks at when it fails
ReadValues(res, values, unset) == IF res = ERROR_OK THEN values ELSE {unset}

\* the bank driver the bank was configured with
IsStm32x == "register_offset" \in DOMAIN info

\* device_id & 0x7ff
PrIdCode(device_id) == device_id[2] % 2048

\* page size, protection granularity and assumed flash size of each family
PrFamilies ==
    (1040 :> [page_size |-> 1024, ppage_size |-> 4, assumed |-> 128])
    @@ (1042 :> [page_size |-> 1024, ppage_size |-> 4, assumed |-> 32])
    @@ (1044 :> [page_size |-> 2048, ppage_size |-> 2, assumed |-> 512])
    @@ (1048 :> [page_size |-> 2048, ppage_size |-> 2, assumed |-> 256])
    @@ (1056 :> [page_size |-> 1024, ppage_size |-> 4, assumed |-> 128])
    @@ (1072 :> [page_size |-> 2048, ppage_size |-> 2, assumed |-> 1024])

\* faulty variant: every identifier is taken for a medium density device
PrKnown_Any(code) == TRUE

\* the identifier is one of the if / else if chain
PrKnown(code) == code \in DOMAIN PrFamilies

\* the family of an identifier; unknown identifiers never get this far
PrFamily(code) == PrFamilies[IF code \in DOMAIN PrFamilies THEN code ELSE 1040]

PrIsXl(code) == code = 1072

\* num_pages as read, 0xffff when the read failed, the assumed size on 0xffff
PrReportedPages(code, res, kb) ==
    LET read == IF res = ERROR_OK THEN kb ELSE 65535
    IN  IF read = 65535 THEN PrFamily(code).assumed ELSE read

\* xl density: split reported size into matching bank (uint16_t num_pages)
PrBankPages(code, base, pages) ==
    IF ~PrIsXl(code) THEN pages
    ELSE IF base # BANK1_BASE THEN 512
    ELSE (pages - 512) % Half

\* num_pages /= (page_size / 1024)
PrNumPages(code, base, res, kb) ==
    PrBankPages(code, base, PrReportedPages(code, res, kb))
        \div (PrFamily(code).page_size \div 1024)

\* faulty variant: the flags of the sectors already there are kept
PrSectors_Merged(old, n, page_size) ==
    [i \in 0 .. n - 1 |->
        IF i \in DOMAIN old
        THEN [ProbedSectors(n, page_size)[i] EXCEPT
                !.is_erased = old[i].is_erased, !.is_protected = old[i].is_protected]
        ELSE ProbedSectors(n, page_size)[i]]

\* free(bank->sectors); the new table of the probe loop
PrSectors(old, n, page_size) == ProbedSectors(n, page_size)

\* stm32x_probe from its first line to its return: the two reads and what
\* they lead to
PrBody ==
    \E res \in AccessResults, sres \in AccessResults :
      \E device_id \in ReadValues(res, DeviceIds, <<0, 0>>) :
      \E kb \in ReadValues(sres, ReportedKb(PrIdCode(device_id)), 0) :
        LET idread == Acc("r32", DBGMCU_IDCODE, device_id, res, <<>>)
            sizeread == Acc("r16", FLASH_SIZE_REG, kb, sres, <<>>)
            code == PrIdCode(device_id)
            fam == PrFamily(code)
            n == PrNumPages(code, bank.base, sres, kb)
            cleared == [info EXCEPT !.probed = 0, !.register_offset = FLASH_OFFSET_B0]
            sized == <<idread, sizeread>>
        IN  IF res # ERROR_OK
            THEN /\ log' = <<idread>>
                 /\ ret' = res
                 /\ info' = cleared
                 /\ bank' = bank
            ELSE IF ~PrKnown(code)
            THEN /\ log' = sized
                 /\ ret' = ERROR_FAIL
                 /\ info' = cleared
                 /\ bank' = bank
            ELSE /\ log' = sized
                 /\ ret' = ERROR_OK
                 /\ info' = [cleared EXCEPT
                               !.probed = 1,
                               !.ppage_size = fam.ppage_size,
                               !.has_dual_banks = IF PrIsXl(code) THEN TRUE ELSE @,
                               !.register_offset =
                                   IF PrIsXl(code) /\ bank.base = BANK1_BASE
                                   THEN FLASH_OFFSET_B1 ELSE FLASH_OFFSET_B0]
                 /\ bank' = [base |-> IF PrIsXl(code) /\ bank.base = BANK1_BASE
                                      THEN BANK1_BASE ELSE <<2048, 0>>,
                             size |-> n * fam.page_size,
                             num_sectors |-> n,
                             sectors |-> PrSectors(bank.sectors, n, fam.page_size)]

\* some sector of the table has been erased or found unprotected since the probe
SectorsUsed(sectors) ==
    \E i \in DOMAIN sectors : sectors[i].is_erased # -1 \/ sectors[i].is_protected # 1

\* reads of a device identifier register in a record of accesses
IdReads(l) ==
    Cardinality({i \in DOMAIN l : l[i].addr \in {DBGMCU_IDCODE, NUCX1_SYS_BASE}})

\* what a call of a probe entry point records of the bank before it, and of the
\* auto probe right before it
ProbeCall(fn) ==
    [fn |-> fn, used |-> SectorsUsed(bank.sectors), probed |-> info.probed,
     prev |-> IF call.fn = fn /\ fn \in {"stm32x_auto_probe", "nucX1_auto_probe"}
              THEN <<[ret |-> ret, reads |-> IdReads(log), probed |-> call.probed]>>
              ELSE <<>>]

stm32x_probe ==
    /\ pc = "done"
    /\ IsStm32x
    /\ halted' \in BOOLEAN
    /\ call' = ProbeCall("stm32x_probe")
    /\ PrBody
    /\ UNCHANGED <<wa, polls, timed_out, pc, stack, wr, wb, wsb, er>>

\* faulty variant: the probed flag is not looked at
AutoProbeDone_Never(probed) == FALSE

\* if (stm32x_info->probed) return ERROR_OK
AutoProbeDone(probed) == probed # 0

stm32x_auto_probe ==
    /\ pc = "done"
    /\ IsStm32x
    /\ halted' \in BOOLEAN
    /\ call' = ProbeCall("stm32x_auto_probe")
    /\ IF AutoProbeDone(info.probed)
       THEN /\ log' = <<>>
            /\ ret' = ERROR_OK
            /\ UNCHANGED <<bank, info>>
       ELSE PrBody
    /\ UNCHANGED <<wa, polls, timed_out, pc, stack, wr, wb, wsb, er>>

----------------------------------------------------------------------------
(* nucX1_probe and nucX1_auto_probe *)

NUC120_ID == <<1, 8192>>                \* 0x00012000

\* bank->target->state != TARGET_HALTED
NpNotHalted(h) == ~h

\* num_pages of the identifier: 256 for the nuc120, 64 for any other nuc
NpNumPages(device_id) == IF device_id = NUC120_ID THEN 256 ELSE 64

NUC_PAGE_SIZE == 512

\* nucX1_probe from its first line to its return
NpBody(h) ==
    \E res \in AccessResults :
      \E device_id \in ReadValues(res, DeviceIds, <<0, 0>>) :
        LET idread == Acc("r32", NUCX1_SYS_BASE, device_id, res, <<>>)
            n == NpNumPages(device_id)
        IN  IF NpNotHalted(h)
            THEN /\ log' = <<>>
                 /\ ret' = ERROR_TARGET_NOT_HALTED
                 /\ info' = [info EXCEPT !.probed = 0]
                 /\ bank' = bank
            ELSE IF res # ERROR_OK \/ device_id = <<0, 0>>
            THEN /\ log' = <<idread>>
                 /\ ret' = IF res # ERROR_OK THEN res ELSE ERROR_FAIL
                 /\ info' = [info EXCEPT !.probed = 0]
                 /\ bank' = bank
            ELSE /\ log' = <<idread>>
                 /\ ret' = ERROR_OK
                 /\ info' = [info EXCEPT !.probed = 1]
                 /\ bank' = [base |-> <<0, 0>>,
                             size |-> n * NUC_PAGE_SIZE,
                             num_sectors |-> n,
                             sectors |-> PrSectors(bank.sectors, n, NUC_PAGE_SIZE)]

nucX1_probe ==
    /\ pc = "done"
    /\ ~IsStm32x
    /\ \E h \in BOOLEAN : halted' = h /\ NpBody(h)
    /\ call' = ProbeCall("nucX1_probe")
    /\ UNCHANGED <<wa, polls, timed_out, pc, stack, wr, wb, wsb, er>>

nucX1_auto_probe ==
    /\ pc = "done"
    /\ ~IsStm32x
    /\ call' = ProbeCall("nucX1_auto_probe")
    /\ \E h \in BOOLEAN :
        /\ halted' = h
        /\ IF AutoProbeDone(info.probed)
           THEN /\ log' = <<>>
                /\ ret' = ERROR_OK
                /\ UNCHANGED <<bank, info>>
           ELSE NpBody(h)
    /\ UNCHANGED <<wa, polls, timed_out, pc, stack, wr, wb, wsb, er>>

----------------------------------------------------------------------------
(* The probes called again and again, on banks as configured and on banks in use *)

\* the bank after the flash bank command: no sector table yet
ConfiguredBank(base) ==
    [base |-> base, size |-> 0, num_sectors |-> 0, sectors |-> <<>>]

\* ppage_size is not set by the flash bank command
ConfiguredInfo(ppage_size) ==
    [probed |-> 0, ppage_size |-> ppage_size, has_dual_banks |-> FALSE,
     register_offset |-> FLASH_OFFSET_B0, write_algorithm |-> 0]

NucConfiguredInfo == [probed |-> 0, write_algorithm |-> 0]

\* a probed bank whose first sector was erased and found unprotected since
UsedSectors(sectors) ==
    [sectors EXCEPT ![0].is_erased = 1, ![0].is_protected = 0]

InitProbe ==
    /\ InitIdle
    /\ \/ /\ bank \in {ConfiguredBank(<<2048, 0>>), ConfiguredBank(BANK1_BASE)}
          /\ info \in {ConfiguredInfo(0), ConfiguredInfo(2)}
       \/ /\ bank = [MediumDensityBank(MaxSectors) EXCEPT !.sectors = UsedSectors(@)]
          /\ info = MediumDensityInfo
       \/ /\ bank = ConfiguredBank(<<0, 0>>)
          /\ info = NucConfiguredInfo
       \/ /\ bank = [base |-> <<0, 0>>, size |-> 64 * NUC_PAGE_SIZE, num_sectors |-> 64,
                     sectors |-> UsedSectors(ProbedSectors(64, NUC_PAGE_SIZE))]
          /\ info = [probed |-> 1, write_algorithm |-> 0]

NextProbe ==
    \/ stm32x_probe
    \/ stm32x_auto_probe
    \/ nucX1_probe
    \/ nucX1_auto_probe

SpecProbe == InitProbe /\ [][NextProbe]_vars

----------------------------------------------------------------------------
(* Claims on the probes, checked under SpecProbe *)

\* a probe has run to its successful end
C13_Probed ==
    /\ pc = "done"
    /\ call.fn \in {"stm32x_probe", "nucX1_probe"}
    /\ ret = ERROR_OK

\* the page size of the identified device
C13_PageSize ==
    IF call.fn = "nucX1_probe" THEN 512
    ELSE IF PrIdCode(log[1].val) \in {1040, 1042, 1056} THEN 1024
    ELSE 2048

\* C13: after a successful stm32x_probe or nucX1_probe the bank size is
\* num_sectors times the page size, sector i lies at i * page size and is one
\* page long, and every sector is erased = -1 (unknown) and protected = 1,
\* whatever the sectors were before.
C13_ProbeBuildsFreshTable ==
    C13_Probed =>
        /\ bank.size = bank.num_sectors * C13_PageSize
        /\ DOMAIN bank.sectors = 0 .. bank.num_sectors - 1
        /\ \A i \in DOMAIN bank.sectors :
            /\ bank.sectors[i].offset = i * C13_PageSize
            /\ bank.sectors[i].size = C13_PageSize
            /\ bank.sectors[i].is_erased = -1
            /\ bank.sectors[i].is_protected = 1

\* the case: a bank with an erased, unprotected sector probed again
C13_Witness ==
    /\ C13_Probed
    /\ call.fn = "stm32x_probe"
    /\ call.used
    /\ bank.num_sectors > 1

C14_Probes == {"stm32x_probe", "nucX1_probe"}

\* C14: a probe called while the target is not halted returns
\* ERROR_TARGET_NOT_HALTED, reads no register and leaves the sector table as
\* it was (stm32x_probe and nucX1_probe).
C14_ProbeNeedsHaltedTarget ==
    [][(call'.fn \in C14_Probes /\ ~halted') =>
            /\ ret' = ERROR_TARGET_NOT_HALTED
            /\ log' = <<>>
            /\ bank'.sectors = bank.sectors]_vars

\* C15 as stated: of two consecutive calls of auto_probe, whatever the bank and
\* the outcome of the first, the two read the identifier register once in
\* total, and the second makes no target access and returns success.
C15_TwoCallsReadOnce ==
    (/\ pc = "done"
     /\ call.fn \in {"stm32x_auto_probe", "nucX1_auto_probe"}
     /\ call.prev # <<>>)
        => /\ call.prev[1].reads + IdReads(log) = 1
           /\ log = <<>>
           /\ ret = ERROR_OK

\* C15: when the first of two consecutive calls of auto_probe finds the bank
\* not probed and succeeds, the two calls read the identifier register once in
\* total: the second makes no target access and returns success.
C15_SecondCallAfterSuccessReadsNothing ==
    (/\ pc = "done"
     /\ call.fn \in {"stm32x_auto_probe", "nucX1_auto_probe"}
     /\ call.prev # <<>>
     /\ call.prev[1].probed = 0
     /\ call.prev[1].ret = ERROR_OK)
        => /\ call.prev[1].reads + IdReads(log) = 1
           /\ log = <<>>
           /\ ret = ERROR_OK

C15_Witness ==
    /\ pc = "done"
    /\ call.fn = "stm32x_auto_probe"
    /\ call.prev # <<>>
    /\ call.prev[1].probed = 0
    /\ call.prev[1].ret = ERROR_OK
    /\ call.prev[1].reads = 1
    /\ bank.num_sectors > 0

\* the identifier a probing call got from the target, when its read succeeded
C16_IdRead(l) == l # <<>> /\ l[1].res = ERROR_OK

C16_KnownCodes == {1040, 1042, 1044, 1048, 1056, 1072}

\* C16: a probe that reads an identifier it does not know (stm32x: low 11 bits
\* none of 0x410, 0x412, 0x414, 0x418, 0x420, 0x430; nucX1: zero) fails, leaves
\* the probed flag clear and the sector table as it was; nucX1_probe takes any
\* other non-zero identifier for 64 sectors of 512 bytes, and 0x00012000 for 256.
C16_UnknownIdentifierFails ==
    [][C16_IdRead(log') =>
          IF call'.fn \in {"stm32x_probe", "stm32x_auto_probe"}
          THEN PrIdCode(log'[1].val) \notin C16_KnownCodes =>
                  /\ ret' \notin {ERROR_OK} \cup TransportErrors
                  /\ info'.probed = 0
                  /\ bank'.sectors = bank.sectors
                  /\ bank'.num_sectors = bank.num_sectors
          ELSE IF log'[1].val = <<0, 0>>
          THEN /\ ret' \notin {ERROR_OK} \cup TransportErrors
               /\ info'.probed = 0
               /\ bank'.sectors = bank.sectors
               /\ bank'.num_sectors = bank.num_sectors
          ELSE /\ ret' = ERROR_OK
               /\ info'.probed = 1
               /\ bank'.num_sectors = IF log'[1].val = <<1, 8192>> THEN 256 ELSE 64
               /\ \A i \in DOMAIN bank'.sectors : bank'.sectors[i].size = 512
               /\ bank'.size = bank'.num_sectors * 512]_vars

\* the case: identifier 0x411 read on a bank with sectors in use
C16_Witness ==
    /\ pc = "done"
    /\ call.fn = "stm32x_probe"
    /\ Len(log) = 2
    /\ log[1].res = ERROR_OK
    /\ log[1].val = <<0, 1041>>
    /\ ret = ERROR_FAIL
    /\ info.probed = 0
    /\ call.used
    /\ bank.num_sectors > 0

----------------------------------------------------------------------------
(* stm32x_protect_check *)

STM32_FLASH_WRPR == <<16386, 8224>>     \* 0x40022020

ERROR_FLASH_OPERATION_FAILED == "ERROR_FLASH_OPERATION_FAILED"

\* values the write protection register can show
ProtectionValues == {<<65535, 65535>>, <<65535, 65534>>, <<32767, 65533>>, <<0, 0>>}

\* protection & (1 << i), for i in 0 .. 31
PcBitSet(protection, i) ==
    IF i < 16 THEN HasBit(protection[2], 2 ^ i) ELSE HasBit(protection[1], 2 ^ (i - 16))

\* faulty variant: a set bit is taken for a protected group
PcFlag_Inverted(bitset) == IF bitset THEN 1 ELSE 0

\* set = 1; if (protection & (1 << i)) set = 0
PcFlag(bitset) == IF bitset THEN 0 ELSE 1

\* faulty variant: every bank passes
OperationSupported_Always == TRUE

\* stm32x_check_operation_supported
OperationSupported == info.register_offset = FLASH_OFFSET_B0

\* num_bits of the loop over the protection bits
PcNumBits(n, ppage_size) ==
    IF ppage_size = 2 /\ n > 61 THEN 31 ELSE n \div ppage_size

\* the protection bit the loops take the flag of sector s from; -1: none
PcBitOf(s, n, ppage_size) ==
    IF s < PcNumBits(n, ppage_size) * ppage_size THEN s \div ppage_size
    ELSE IF ppage_size = 2 /\ s >= 62 THEN 31
    ELSE -1

\* the sector table after the loops
PcSectors(sectors, n, ppage_size, protection) ==
    [s \in DOMAIN sectors |->
        IF PcBitOf(s, n, ppage_size) = -1 THEN sectors[s]
        ELSE [sectors[s] EXCEPT
                !.is_protected = PcFlag(PcBitSet(protection, PcBitOf(s, n, ppage_size)))]]

\* the whole of stm32x_protect_check
stm32x_protect_check ==
    /\ pc = "done"
    /\ IsStm32x
    /\ info.probed = 1
    /\ \E h \in BOOLEAN, res \in AccessResults :
       \E protection \in ReadValues(res, ProtectionValues, <<0, 0>>) :
        /\ halted' = h
        /\ call' = [fn |-> "stm32x_protect_check", sectors |-> bank.sectors]
        /\ IF ~h
           THEN ret' = ERROR_TARGET_NOT_HALTED /\ log' = <<>> /\ bank' = bank
           ELSE IF ~OperationSupported
           THEN ret' = ERROR_FLASH_OPERATION_FAILED /\ log' = <<>> /\ bank' = bank
           ELSE /\ log' = <<Acc("r32", STM32_FLASH_WRPR, protection, res, <<>>)>>
                /\ ret' = res
                /\ bank' = IF res # ERROR_OK THEN bank
                           ELSE [bank EXCEPT !.sectors =
                                   PcSectors(bank.sectors, bank.num_sectors,
                                             info.ppage_size, protection)]
    /\ polls' = 0
    /\ timed_out' = FALSE
    /\ UNCHANGED <<info, wa, pc, stack, wr, wb, wsb, er>>

\* high density device (id 0x414) reporting 2n kbytes of flash
HighDensityBank(n) ==
    [base |-> <<2048, 0>>, size |-> n * 2048, num_sectors |-> n,
     sectors |-> ProbedSectors(n, 2048)]

HighDensityInfo ==
    [probed |-> 1, ppage_size |-> 2, has_dual_banks |-> FALSE,
     register_offset |-> FLASH_OFFSET_B0, write_algorithm |-> 0]

\* sector counts of the banks protect_check is run on: few sectors, and the
\* counts at which the last protection bit comes into play
CheckedBanks ==
    {<<MediumDensityBank(n), MediumDensityInfo>> : n \in {MaxSectors, 4, 128}}
    \cup {<<HighDensityBank(n), HighDensityInfo>> : n \in {MaxSectors + 1, 62, 128}}
    \cup {<<XlBank1(MaxSectors), XlBank1Info>>}

InitProtectCheck ==
    /\ InitIdle
    /\ \E b \in CheckedBanks :
        /\ bank = b[1]
        /\ info = b[2]

NextProtectCheck == stm32x_protect_check

SpecProtectCheck == InitProtectCheck /\ [][NextProtectCheck]_vars

----------------------------------------------------------------------------
(* Claims on stm32x_protect_check, checked under SpecProtectCheck *)

\* the scenario: 128 sectors of 1024 bytes, four to a protection bit, and the
\* protection register read as 0xFFFFFFFE
C17_Scenario ==
    /\ pc = "done"
    /\ call.fn = "stm32x_protect_check"
    /\ ret = ERROR_OK
    /\ bank.num_sectors = 128
    /\ info.ppage_size = 4
    /\ log[1].val = <<65535, 65534>>

\* C17 as stated: in the scenario sectors 0 to 3 end up not protected and
\* sectors 4 to 127 protected.
C17_ClearBitUnprotects ==
    C17_Scenario =>
        /\ \A s \in 0 .. 3 : bank.sectors[s].is_protected = 0
        /\ \A s \in 4 .. 127 : bank.sectors[s].is_protected = 1

\* C17: in the scenario sectors 0 to 3 end up protected (bit 0 is clear) and
\* sectors 4 to 127 not protected (their bits are set).
C17_ClearBitProtects ==
    C17_Scenario =>
        /\ \A s \in 0 .. 3 : bank.sectors[s].is_protected = 1
        /\ \A s \in 4 .. 127 : bank.sectors[s].is_protected = 0

\* the case: the scenario on a bank whose sectors were all found unprotected before
C17_Witness ==
    /\ C17_Scenario
    /\ \A s \in 0 .. 127 : call.sectors[s].is_protected = 0

\* the bit of the protection register governing sector s
C18_Bit(s) ==
    IF info.ppage_size = 2 /\ bank.num_sectors > 61 /\ s >= 62 THEN 31
    ELSE s \div info.ppage_size

\* C18: after a successful stm32x_protect_check every sector's protected flag
\* is the one its governing bit of the register read gives (bit clear:
\* protected), whatever the sector count: bit floor(s / ppage_size), and bit 31
\* for the sectors from 62 on when ppage_size is 2 and there are more than 61.
C18_EverySectorAssigned ==
    (/\ pc = "done"
     /\ call.fn = "stm32x_protect_check"
     /\ ret = ERROR_OK)
        => \A s \in DOMAIN bank.sectors :
              bank.sectors[s].is_protected =
                  (IF PcBitSet(log[1].val, C18_Bit(s)) THEN 0 ELSE 1)

----------------------------------------------------------------------------
(* Option bytes: stm32x_read_options, stm32x_erase_options,
   stm32x_write_options, stm32x_protect and the options_write command *)

STM32_FLASH_OPTKEYR == <<16386, 8200>>  \* 0x40022008
STM32_FLASH_OBR     == <<16386, 8220>>  \* 0x4002201C

STM32_OB_RDP  == <<8191, 63488>>        \* 0x1FFFF800
STM32_OB_USER == <<8191, 63490>>        \* 0x1FFFF802
STM32_OB_WRP0 == <<8191, 63496>>        \* 0x1FFFF808
STM32_OB_WRP1 == <<8191, 63498>>        \* 0x1FFFF80A
STM32_OB_WRP2 == <<8191, 63500>>        \* 0x1FFFF80C
STM32_OB_WRP3 == <<8191, 63502>>        \* 0x1FFFF80E

FLASH_OPTPG  == 16
FLASH_OPTER  == 32
FLASH_OPTWRE == 512

\* 1 << OPT_READOUT
OPT_READOUT_BIT == 2

\* the read-out protection value of an unprotected device
RDP_UNLOCKED == 23205                   \* 0x5AA5
\* the read-out protection value of a protected device
RDP_LOCKED == 65535                     \* 0xFFFF

\* stm32x_wait_status_busy(bank, 10)
WAIT_OPTION == 10

\* values the option byte register can show: read-out protection off with the
\* three user bits set, and read-out protection on with the user bits clear
OptionRegisterValues == {<<0, 28>>, <<0, 2>>}

\* values the write protection register shows during an option byte cycle
CycleProtectionValues == {<<65535, 65535>>, <<65535, 65534>>}

\* x with the single-bit mask cleared, and set
ClearBit(x, bit) == IF HasBit(x, bit) THEN x - bit ELSE x
SetBit(x, bit) == IF HasBit(x, bit) THEN x ELSE x + bit

\* (uint16_t)optiondata, (uint16_t)(optiondata >> 8), (uint16_t)(optiondata >> 16),
\* (uint16_t)(optiondata >> 24)
ProtectionWords(optiondata) ==
    <<optiondata[2],
      (optiondata[1] % 256) * 256 + optiondata[2] \div 256,
      optiondata[1],
      optiondata[1] \div 256>>

\* (uint16_t)0xFFF8 | ((optiondata >> 2) & 0x07)
RoUserOptions(optiondata) == 65528 + ((optiondata[2] \div 4) % 8)

\* (optiondata & (1 << OPT_READOUT)) ? 0xFFFF : 0x5AA5
RoRdp(optiondata) ==
    IF HasBit(optiondata[2], OPT_READOUT_BIT) THEN RDP_LOCKED ELSE RDP_UNLOCKED

\* the option byte cache before an operation: what malloc left in the
\* structure, or what an earlier option byte cycle put there
CachedOptions ==
    {[RDP |-> 0, user_options |-> 0, protection |-> <<0, 0, 0, 0>>],
     [RDP |-> RDP_UNLOCKED, user_options |-> 65535,
      protection |-> <<65535, 65535, 65535, 65535>>]}

\* the driver's private data with the option byte cache
WithOptions(i, ob) ==
    [probed |-> i.probed, ppage_size |-> i.ppage_size,
     has_dual_banks |-> i.has_dual_banks, register_offset |-> i.register_offset,
     write_algorithm |-> i.write_algorithm, option_bytes |-> ob]

\* stm32x_read_options: the option byte register gives the user options and the
\* read-out protection value, the write protection register the four
\* protection words; a failed read returns at once
stm32x_read_options ==
    /\ pc = "ro_read"
    /\ \E res1 \in AccessResults, res2 \in AccessResults :
       \E obr \in ReadValues(res1, OptionRegisterValues, <<0, 0>>),
          wrpr \in ReadValues(res2, CycleProtectionValues, <<0, 0>>) :
        IF res1 # ERROR_OK
        THEN /\ log' = Append(log, Acc("r32", STM32_FLASH_OBR, obr, res1, <<>>))
             /\ info' = info
             /\ Return(res1)
        ELSE /\ log' = log \o <<Acc("r32", STM32_FLASH_OBR, obr, res1, <<>>),
                                Acc("r32", STM32_FLASH_WRPR, wrpr, res2, <<>>)>>
             /\ info' = [info EXCEPT
                           !.option_bytes.user_options = RoUserOptions(obr),
                           !.option_bytes.RDP = RoRdp(obr),
                           !.option_bytes.protection =
                               IF res2 = ERROR_OK THEN ProtectionWords(wrpr) ELSE @]
             /\ Return(res2)
    /\ UNCHANGED <<halted, bank, wa, polls, timed_out, call, wr, wb, wsb, er>>

\* enter stm32x_erase_options from an entry point, to come back at `back`: its
\* first statement is the call of stm32x_read_options
CallEraseOptions(back) ==
    /\ pc' = "ro_read"
    /\ stack' = <<"eo_key1", back, "done">>

\* a register or option byte write of the option byte routines that returns on
\* failure; the flash registers are addressed without the bank's register offset
OptWrite(at, op, addr, val, next) ==
    /\ pc = at
    /\ \E res \in AccessResults :
        /\ log' = Append(log, Acc(op, addr, val, res, <<>>))
        /\ IF res # ERROR_OK
           THEN Return(res)
           ELSE pc' = next /\ UNCHANGED <<stack, ret>>
    /\ UNCHANGED <<halted, bank, info, wa, polls, timed_out, call, wr, wb, wsb, er>>

\* a write of the option byte routines followed by a wait for the flash
OptWriteWait(at, op, addr, val, back) ==
    /\ pc = at
    /\ \E res \in AccessResults :
        /\ log' = Append(log, Acc(op, addr, val, res, <<>>))
        /\ IF res # ERROR_OK
           THEN Return(res) /\ UNCHANGED <<wsb, polls, timed_out>>
           ELSE CallWait(WAIT_OPTION, back)
    /\ UNCHANGED <<halted, bank, info, wa, call, wr, wb, er>>

\* faulty variant: the result of the wait is not looked at
OptAfterWait_Ignored(at, next) ==
    /\ pc = at
    /\ pc' = next
    /\ UNCHANGED <<halted, bank, info, wa, log, polls, timed_out, stack, ret, call, wr,
                   wb, wsb, er>>

\* back from a wait of stm32x_write_options
OptAfterWait(at, next) ==
    /\ pc = at
    /\ IF ret # ERROR_OK
       THEN Return(ret)
       ELSE pc' = next /\ UNCHANGED <<stack, ret>>
    /\ UNCHANGED <<halted, bank, info, wa, log, polls, timed_out, call, wr, wb, wsb, er>>

\* stm32x_erase_options after the read: the result of stm32x_read_options is
\* not looked at
EoKey1 == OptWrite("eo_key1", "w32", STM32_FLASH_KEYR, KEY1, "eo_key2")
EoKey2 == OptWrite("eo_key2", "w32", STM32_FLASH_KEYR, KEY2, "eo_optkey1")
EoOptKey1 == OptWrite("eo_optkey1", "w32", STM32_FLASH_OPTKEYR, KEY1, "eo_optkey2")
EoOptKey2 == OptWrite("eo_optkey2", "w32", STM32_FLASH_OPTKEYR, KEY2, "eo_opter")
EoOpter ==
    OptWrite("eo_opter", "w32", STM32_FLASH_CR, W(FLASH_OPTER + FLASH_OPTWRE), "eo_strt")
EoStrt ==
    OptWriteWait("eo_strt", "w32", STM32_FLASH_CR,
                 W(FLASH_OPTER + FLASH_STRT + FLASH_OPTWRE), "eo_after_wait")

\* option_bytes.RDP = 0x5AA5
EoRdp(rdp) == RDP_UNLOCKED

\* back from the wait: clear the read-out protection in the cache
EoAfterWait ==
    /\ pc = "eo_after_wait"
    /\ IF ret # ERROR_OK
       THEN Return(ret) /\ info' = info
       ELSE /\ info' = [info EXCEPT !.option_bytes.RDP = EoRdp(@)]
            /\ Return(ERROR_OK)
    /\ UNCHANGED <<halted, bank, wa, log, polls, timed_out, call, wr, wb, wsb, er>>

stm32x_erase_options ==
    \/ EoKey1
    \/ EoKey2
    \/ EoOptKey1
    \/ EoOptKey2
    \/ EoOpter
    \/ EoStrt
    \/ EoAfterWait

\* stm32x_write_options: unlock, program mode, the six option half-words each
\* followed by a wait, lock
WoKey1 == OptWrite("wo_key1", "w32", STM32_FLASH_KEYR, KEY1, "wo_key2")
WoKey2 == OptWrite("wo_key2", "w32", STM32_FLASH_KEYR, KEY2, "wo_optkey1")
WoOptKey1 == OptWrite("wo_optkey1", "w32", STM32_FLASH_OPTKEYR, KEY1, "wo_optkey2")
WoOptKey2 == OptWrite("wo_optkey2", "w32", STM32_FLASH_OPTKEYR, KEY2, "wo_optpg")
WoOptpg ==
    OptWrite("wo_optpg", "w32", STM32_FLASH_CR, W(FLASH_OPTPG + FLASH_OPTWRE), "wo_user")
WoUser ==
    OptWriteWait("wo_user", "w16", STM32_OB_USER,
                 W(info.option_bytes.user_options), "wo_user_wait")
WoUserWait == OptAfterWait("wo_user_wait", "wo_wrp0")
WoWrp0 ==
    OptWriteWait("wo_wrp0", "w16", STM32_OB_WRP0,
                 W(info.option_bytes.protection[1]), "wo_wrp0_wait")
WoWrp0Wait == OptAfterWait("wo_wrp0_wait", "wo_wrp1")
WoWrp1 ==
    OptWriteWait("wo_wrp1", "w16", STM32_OB_WRP1,
                 W(info.option_bytes.protection[2]), "wo_wrp1_wait")
WoWrp1Wait == OptAfterWait("wo_wrp1_wait", "wo_wrp2")
WoWrp2 ==
    OptWriteWait("wo_wrp2", "w16", STM32_OB_WRP2,
                 W(info.option_bytes.protection[3]), "wo_wrp2_wait")
WoWrp2Wait == OptAfterWait("wo_wrp2_wait", "wo_wrp3")
WoWrp3 ==
    OptWriteWait("wo_wrp3", "w16", STM32_OB_WRP3,
                 W(info.option_bytes.protection[4]), "wo_wrp3_wait")
WoWrp3Wait == OptAfterWait("wo_wrp3_wait", "wo_rdp")
WoRdp ==
    OptWriteWait("wo_rdp", "w16", STM32_OB_RDP,
                 W(info.option_bytes.RDP), "wo_rdp_wait")
WoRdpWait == OptAfterWait("wo_rdp_wait", "wo_lock")

\* lock the flash again; the result of the write is the result of the call
WoLock ==
    /\ pc = "wo_lock"
    /\ \E res \in AccessResults :
        /\ log' = Append(log, Acc("w32", STM32_FLASH_CR, W(FLASH_LOCK), res, <<>>))
        /\ Return(res)
    /\ UNCHANGED <<halted, bank, info, wa, polls, timed_out, call, wr, wb, wsb, er>>

stm32x_write_options ==
    \/ WoKey1
    \/ WoKey2
    \/ WoOptKey1
    \/ WoOptKey2
    \/ WoOptpg
    \/ WoUser
    \/ WoUserWait
    \/ WoWrp0
    \/ WoWrp0Wait
    \/ WoWrp1
    \/ WoWrp1Wait
    \/ WoWrp2
    \/ WoWrp2Wait
    \/ WoWrp3
    \/ WoWrp3Wait
    \/ WoRdp
    \/ WoRdpWait
    \/ WoLock

----------------------------------------------------------------------------
(* stm32x_protect *)

\* first - (first % ppage_size)
PtAlignFirst(first, ppage_size) ==
    IF first % ppage_size # 0 THEN first - (first % ppage_size) ELSE first

\* last++; last = last - (last % ppage_size); last--
PtAlignLast(last, ppage_size) ==
    IF (last + 1) % ppage_size # 0
    THEN (last + 1) - ((last + 1) % ppage_size) - 1
    ELSE last

\* the loop over the sectors first .. last: bit (i / ppage_size) % 8 of the
\* word (i / ppage_size) / 8 is cleared to protect, set to unprotect
PtLoop(prot_reg, ppage_size, set, first, last) ==
    LET groups == {i \div ppage_size : i \in first .. last}
        word(v, k) ==
            LET F[b \in 0 .. 8] ==
                    IF b = 0 THEN v
                    ELSE IF (8 * k + (b - 1)) \notin groups THEN F[b - 1]
                    ELSE IF set THEN ClearBit(F[b - 1], 2 ^ (b - 1))
                    ELSE SetBit(F[b - 1], 2 ^ (b - 1))
            IN  F[8]
    IN  [k \in 1 .. 4 |-> word(prot_reg[k], k - 1)]

\* prot_reg as stm32x_protect computes it from the register read
PtProtReg(protection, ppage_size, set, first, last) ==
    LET f == PtAlignFirst(first, ppage_size)
        l == PtAlignLast(last, ppage_size)
        r == ProtectionWords(protection)
    IN  IF ppage_size = 2
        THEN PtLoop([r EXCEPT ![4] = IF l <= 61 THEN @
                                     ELSE IF set THEN ClearBit(@, 128)
                                     ELSE SetBit(@, 128)],
                    ppage_size, set,
                    IF f > 61 THEN 62 ELSE f,
                    IF l > 61 THEN 61 ELSE l)
        ELSE PtLoop(r, ppage_size, set, f, l)

\* the sector ranges stm32x_protect is called with
ProtectRanges(n) == {<<0, 0>>, <<1, 2>>, <<0, n - 1>>, <<n - 1, n - 1>>}

\* entry of stm32x_protect: the two checks, the register read and prot_reg,
\* then stm32x_erase_options
stm32x_protect ==
    /\ pc = "done"
    /\ IsStm32x
    /\ info.probed = 1
    /\ \E h \in BOOLEAN, set \in BOOLEAN, r \in ProtectRanges(bank.num_sectors),
          res \in AccessResults :
       \E protection \in ReadValues(res, CycleProtectionValues, <<0, 0>>) :
        /\ halted' = h
        /\ call' = [fn |-> "stm32x_protect", set |-> set, first |-> r[1], last |-> r[2],
                    sectors |-> bank.sectors,
                    prot_reg |-> IF h /\ OperationSupported /\ res = ERROR_OK
                                 THEN PtProtReg(protection, info.ppage_size, set,
                                                r[1], r[2])
                                 ELSE <<>>]
        /\ IF ~h
           THEN ret' = ERROR_TARGET_NOT_HALTED /\ log' = <<>> /\ UNCHANGED <<pc, stack>>
           ELSE IF ~OperationSupported
           THEN ret' = ERROR_FLASH_OPERATION_FAILED /\ log' = <<>>
                /\ UNCHANGED <<pc, stack>>
           ELSE /\ log' = <<Acc("r32", STM32_FLASH_WRPR, protection, res, <<>>)>>
                /\ ret' = res
                /\ IF res # ERROR_OK
                   THEN UNCHANGED <<pc, stack>>
                   ELSE CallEraseOptions("pt_after_erase")
    /\ polls' = 0
    /\ timed_out' = FALSE
    /\ UNCHANGED <<bank, info, wa, wr, wb, wsb, er>>

\* faulty variant: the sectors of the range get their protected flag at once
PtAfterErase_MarksSectors ==
    /\ pc = "pt_after_erase"
    /\ IF ret # ERROR_OK
       THEN Return(ret) /\ info' = info /\ bank' = bank
       ELSE /\ info' = [info EXCEPT !.option_bytes.protection = call.prot_reg]
            /\ bank' = [bank EXCEPT !.sectors =
                           [s \in DOMAIN bank.sectors |->
                               IF s \in call.first .. call.last
                               THEN [bank.sectors[s] EXCEPT
                                       !.is_protected = IF call.set THEN 1 ELSE 0]
                               ELSE bank.sectors[s]]]
            /\ pc' = "wo_key1"
            /\ UNCHANGED <<stack, ret>>
    /\ UNCHANGED <<halted, wa, log, polls, timed_out, call, wr, wb, wsb, er>>

\* back from stm32x_erase_options: put prot_reg into the cache and go on with
\* stm32x_write_options, whose result is the result of the call
PtAfterErase ==
    /\ pc = "pt_after_erase"
    /\ IF ret # ERROR_OK
       THEN Return(ret) /\ info' = info
       ELSE /\ info' = [info EXCEPT !.option_bytes.protection = call.prot_reg]
            /\ pc' = "wo_key1"
            /\ UNCHANGED <<stack, ret>>
    /\ UNCHANGED <<halted, bank, wa, log, polls, timed_out, call, wr, wb, wsb, er>>

----------------------------------------------------------------------------
(* the options_write command *)

\* optionbyte = 0xF8, then bits 0 to 3 from the arguments
OwOptionByte(swwdg, norststop, norststndby, boot0, has_dual_banks) ==
    248 + (IF swwdg THEN 1 ELSE 0) + (IF norststop THEN 2 ELSE 0)
        + (IF norststndby THEN 4 ELSE 0)
        + (IF boot0 /\ has_dual_banks THEN 8 ELSE 0)

\* the argument lists the command is given: watchdog, stop, standby, boot
OwArguments == {<<TRUE, TRUE, TRUE, FALSE>>, <<FALSE, TRUE, FALSE, TRUE>>}

\* entry of the command handler: the two checks and the option byte, then
\* stm32x_erase_options
stm32x_handle_options_write_command ==
    /\ pc = "done"
    /\ IsStm32x
    /\ info.probed = 1
    /\ \E h \in BOOLEAN, a \in OwArguments :
        /\ halted' = h
        /\ call' = [fn |-> "options_write", sectors |-> bank.sectors,
                    optionbyte |-> OwOptionByte(a[1], a[2], a[3], a[4],
                                                info.has_dual_banks)]
        /\ IF ~h
           THEN ret' = ERROR_TARGET_NOT_HALTED /\ UNCHANGED <<pc, stack>>
           ELSE IF ~OperationSupported
           THEN ret' = ERROR_FLASH_OPERATION_FAILED /\ UNCHANGED <<pc, stack>>
           ELSE ret' = ERROR_OK /\ CallEraseOptions("ow_after_erase")
    /\ log' = <<>>
    /\ polls' = 0
    /\ timed_out' = FALSE
    /\ UNCHANGED <<bank, info, wa, wr, wb, wsb, er>>

\* back from stm32x_erase_options: a failure is printed and the command returns
\* ERROR_OK; otherwise the option byte goes into the cache
OwAfterErase ==
    /\ pc = "ow_after_erase"
    /\ IF ret # ERROR_OK
       THEN Return(ERROR_OK) /\ info' = info
       ELSE /\ info' = [info EXCEPT !.option_bytes.user_options = call.optionbyte]
            /\ pc' = "wo_key1"
            /\ stack' = <<"ow_after_write">> \o stack
            /\ ret' = ret
    /\ UNCHANGED <<halted, bank, wa, log, polls, timed_out, call, wr, wb, wsb, er>>

\* back from stm32x_write_options: a failure is printed and the command returns
\* ERROR_OK, as it does on success
OwAfterWrite ==
    /\ pc = "ow_after_write"
    /\ Return(ERROR_OK)
    /\ UNCHANGED <<halted, bank, info, wa, log, polls, timed_out, call, wr, wb, wsb, er>>

\* the banks the option byte operations are run on: an 8-sector medium density
\* bank (two protection groups), a high density bank and a second xl bank
OptionBanks ==
    {<<MediumDensityBank(8), MediumDensityInfo>>,
     <<HighDensityBank(MaxSectors + 1), HighDensityInfo>>,
     <<XlBank1(MaxSectors), XlBank1Info>>}

InitOptions ==
    /\ InitIdle
    /\ \E b \in OptionBanks, ob \in CachedOptions :
        /\ bank = b[1]
        /\ info = WithOptions(b[2], ob)

\* one operation on each bank and cache of InitOptions: the cache is all an
\* operation hands on to the next
OptionsEntry ==
    /\ call.fn = "none"
    /\ \/ stm32x_protect_check
       \/ stm32x_protect
       \/ stm32x_handle_options_write_command

NextOptions ==
    \/ OptionsEntry
    \/ PtAfterErase
    \/ OwAfterErase
    \/ OwAfterWrite
    \/ stm32x_read_options
    \/ stm32x_erase_options
    \/ stm32x_write_options
    \/ stm32x_wait_status_busy

SpecOptions == InitOptions /\ [][NextOptions]_vars

----------------------------------------------------------------------------
(* Claims on the protection and option byte operations, checked under SpecOptions *)

\* the call in progress or just over is one with the two preconditions
C19_Guarded == call.fn \in {"stm32x_protect_check", "stm32x_protect"}

\* the call touched nothing: no target access, the sector table as before
C19_NothingDone ==
    /\ pc = "done"
    /\ log = <<>>
    /\ bank.sectors = call.sectors

\* C19: stm32x_protect_check and stm32x_protect on a target that is not halted
\* fail with ERROR_TARGET_NOT_HALTED, and on a halted target with a bank whose
\* register offset is not that of bank 0 with ERROR_FLASH_OPERATION_FAILED; in
\* both cases no register is read or written and no sector flag changes.
C19_PreconditionsComeFirst ==
    /\ (C19_Guarded /\ ~halted)
          => (ret = ERROR_TARGET_NOT_HALTED /\ C19_NothingDone)
    /\ (C19_Guarded /\ halted /\ info.register_offset # FLASH_OFFSET_B0)
          => (ret = ERROR_FLASH_OPERATION_FAILED /\ C19_NothingDone)

\* the case: stm32x_protect on the second bank of a halted dual-bank device
C19_Witness ==
    /\ call.fn = "stm32x_protect"
    /\ halted
    /\ info.register_offset = FLASH_OFFSET_B1
    /\ ret = ERROR_FLASH_OPERATION_FAILED

\* the values stm32x_read_options read successfully from register reg before
\* log entry i
C20_Read(reg, i) ==
    {log[j].val : j \in {k \in 1 .. i - 1 :
                            /\ log[k].op = "r32"
                            /\ log[k].addr = reg
                            /\ log[k].res = ERROR_OK}}

\* the protection word an option byte address takes; 0: none
C20_Word(addr) ==
    IF addr = STM32_OB_WRP0 THEN 1
    ELSE IF addr = STM32_OB_WRP1 THEN 2
    ELSE IF addr = STM32_OB_WRP2 THEN 3
    ELSE IF addr = STM32_OB_WRP3 THEN 4
    ELSE 0

\* C20: in an option byte cycle of options_write or stm32x_protect every
\* option half-word written that the operation does not change (the read-out
\* protection value; the user options in stm32x_protect; the four protection
\* words in options_write) is the value stm32x_read_options read from the
\* hardware at the start of the cycle.
C20_OtherFieldsAsRead ==
    \A i \in LogAt({"w16"}) :
        /\ log[i].addr = STM32_OB_RDP
              => \E v \in C20_Read(STM32_FLASH_OBR, i) : log[i].val = W(RoRdp(v))
        /\ (log[i].addr = STM32_OB_USER /\ call.fn = "stm32x_protect")
              => \E v \in C20_Read(STM32_FLASH_OBR, i) :
                    log[i].val = W(RoUserOptions(v))
        /\ (C20_Word(log[i].addr) # 0 /\ call.fn = "options_write")
              => \E v \in C20_Read(STM32_FLASH_WRPR, i) :
                    log[i].val = W(ProtectionWords(v)[C20_Word(log[i].addr)])

\* the option half-words in the order stm32x_write_options writes them
C21_HalfWords ==
    <<STM32_OB_USER, STM32_OB_WRP0, STM32_OB_WRP1, STM32_OB_WRP2, STM32_OB_WRP3,
      STM32_OB_RDP>>

\* the positions stm32x_write_options is at right before a half-word write
\* after the first, and before the lock write
C21_AfterPoll == {"wo_wrp0", "wo_wrp1", "wo_wrp2", "wo_wrp3", "wo_rdp", "wo_lock"}

\* the log entries that are the lock write of stm32x_write_options
C21_Locks ==
    {i \in LogAt({"w32"}) : log[i].addr = STM32_FLASH_CR /\ log[i].val = W(FLASH_LOCK)}

\* C21: in stm32x_write_options the half-words are written in the order user
\* options, protection words 0 to 3, read-out protection; each next write, and
\* the lock write, is issued only when the write before it succeeded and the
\* busy poll after it returned success (no timeout, no error bit written back);
\* a failed write is the last access of the cycle; and the lock write comes
\* only after six successful half-word writes.
C21_PollBetweenHalfWords ==
    /\ \A i \in LogAt({"w16"}) :
          /\ log[i].addr = C21_HalfWords[Cardinality({j \in LogAt({"w16"}) : j <= i})]
          /\ log[i].res # ERROR_OK => i = Len(log)
          /\ i > 1 /\ log[i - 1].op = "w16" => log[i - 1].res = ERROR_OK
    /\ pc \in C21_AfterPoll =>
          /\ ret = ERROR_OK
          /\ ~timed_out
          /\ log[Len(log)].op = "w16"
          /\ log[Len(log)].res = ERROR_OK
    /\ \A i \in C21_Locks :
          /\ i = Len(log)
          /\ Cardinality(LogAt({"w16"})) = 6
          /\ \A j \in i - 6 .. i - 1 : log[j].op = "w16" /\ log[j].res = ERROR_OK

\* the case: a complete option byte cycle, ended by the lock write
C21_Witness ==
    /\ pc = "done"
    /\ call.fn = "options_write"
    /\ C21_Locks # {}
    /\ log[Len(log)].res = ERROR_OK

\* C22: a failed read of the option byte register or of the protection
\* register is the last target access of the operation: no unlock key and no
\* option erase command is written after it.
C22_NoEraseAfterFailedRead ==
    \A i \in LogAt({"r32"}) :
        log[i].res # ERROR_OK => \A j \in RegWrites : j < i

----------------------------------------------------------------------------
(* Device info and the nucX1 protection check *)

NUCX1_SYS_WRPROT == <<20480, 256>>      \* 0x50000100

\* values the nucX1 write protection register can show: locked, unlocked
WrprotValues == {<<0, 0>>, <<0, 1>>}

\* the identifier is one the info function has a text for
InfoKnown(nuc, device_id) ==
    IF nuc THEN device_id # <<0, 0>> ELSE PrIdCode(device_id) \in DOMAIN PrFamilies

\* faulty variant: the info function probes the bank again, which clears the
\* probed flag first
InfoBody_Probes(nuc, reg) ==
    \E res \in AccessResults :
      \E device_id \in ReadValues(res, DeviceIds, <<0, 0>>) :
        /\ log' = <<Acc("r32", reg, device_id, res, <<>>)>>
        /\ ret' = IF res # ERROR_OK THEN res
                  ELSE IF InfoKnown(nuc, device_id) THEN ERROR_OK ELSE ERROR_FAIL
        /\ info' = [info EXCEPT !.probed = IF ret' = ERROR_OK THEN 1 ELSE 0]
        /\ UNCHANGED <<bank, wa>>

\* get_stm32x_info and nucX1_info: read the identifier register and print the
\* name of the device
InfoBody(nuc, reg) ==
    \E res \in AccessResults :
      \E device_id \in ReadValues(res, DeviceIds, <<0, 0>>) :
        /\ log' = <<Acc("r32", reg, device_id, res, <<>>)>>
        /\ ret' = IF res # ERROR_OK THEN res
                  ELSE IF InfoKnown(nuc, device_id) THEN ERROR_OK ELSE ERROR_FAIL
        /\ UNCHANGED <<bank, info, wa>>

get_stm32x_info ==
    /\ pc = "done"
    /\ IsStm32x
    /\ halted' \in BOOLEAN
    /\ call' = [fn |-> "get_stm32x_info", bank |-> bank, info |-> info]
    /\ InfoBody(FALSE, DBGMCU_IDCODE)
    /\ polls' = 0
    /\ timed_out' = FALSE
    /\ UNCHANGED <<pc, stack, wr, wb, wsb, er>>

nucX1_info ==
    /\ pc = "done"
    /\ ~IsStm32x
    /\ halted' \in BOOLEAN
    /\ call' = [fn |-> "nucX1_info", bank |-> bank, info |-> info]
    /\ InfoBody(TRUE, NUCX1_SYS_BASE)
    /\ polls' = 0
    /\ timed_out' = FALSE
    /\ UNCHANGED <<pc, stack, wr, wb, wsb, er>>

\* what the write protection register answers to nucX1_protect_check: locked,
\* unlocked, and words that are neither 0 nor 1
NcWrprotValues == WrprotValues \cup {<<0, 2>>, <<65535, 65535>>}

\* faulty variant: only the value 1 counts as unprotected
NcFlag_OnlyOne(protected) == IF protected = <<0, 1>> THEN 0 ELSE 1

\* set = 1 when the register reads 0, else 0
NcFlag(protected) == IF protected = <<0, 0>> THEN 1 ELSE 0

\* the whole of nucX1_protect_check
nucX1_protect_check ==
    /\ pc = "done"
    /\ ~IsStm32x
    /\ info.probed = 1
    /\ \E h \in BOOLEAN, res \in AccessResults :
       \E protected \in ReadValues(res, NcWrprotValues, <<0, 0>>) :
        /\ halted' = h
        /\ call' = [fn |-> "nucX1_protect_check", sectors |-> bank.sectors]
        /\ IF ~h
           THEN ret' = ERROR_TARGET_NOT_HALTED /\ log' = <<>> /\ bank' = bank
           ELSE /\ log' = <<Acc("r32", NUCX1_SYS_WRPROT, protected, res, <<>>)>>
                /\ ret' = res
                /\ bank' = IF res # ERROR_OK THEN bank
                           ELSE [bank EXCEPT !.sectors =
                                   [s \in DOMAIN bank.sectors |->
                                       [bank.sectors[s] EXCEPT
                                           !.is_protected = NcFlag(protected)]]]
    /\ polls' = 0
    /\ timed_out' = FALSE
    /\ UNCHANGED <<info, wa, pc, stack, wr, wb, wsb, er>>

\* a probed nucX1 bank of n pages
NucBank(n) ==
    [base |-> <<0, 0>>, size |-> n * NUC_PAGE_SIZE, num_sectors |-> n,
     sectors |-> ProbedSectors(n, NUC_PAGE_SIZE)]

NucInfo == [probed |-> 1, write_algorithm |-> 0]

InitInfo ==
    /\ InitIdle
    /\ \/ \E b \in CheckedBanks, ob \in CachedOptions :
            /\ bank = b[1]
            /\ info = WithOptions(b[2], ob)
       \/ /\ bank \in {NucBank(MaxSectors), NucBank(64)}
          /\ info = NucInfo

NextInfo ==
    \/ get_stm32x_info
    \/ nucX1_info
    \/ stm32x_protect_check
    \/ nucX1_protect_check

SpecInfo == InitInfo /\ [][NextInfo]_vars

----------------------------------------------------------------------------
(* Claims on the read-only operations, checked under SpecInfo *)

\* C23: get_stm32x_info, nucX1_info, stm32x_protect_check and
\* nucX1_protect_check write no target register or memory, run no code on the
\* target and allocate no working area; the two info functions leave the whole
\* bank model (sector table, probed flag, option byte cache) as it was.
C23_ReadOnly ==
    call.fn \in {"get_stm32x_info", "nucX1_info", "stm32x_protect_check",
                 "nucX1_protect_check"}
        => /\ LogAt({"w32", "w16", "wbuf", "run", "alloc", "free"}) = {}
           /\ wa = {}
           /\ call.fn \in {"get_stm32x_info", "nucX1_info"}
                 => bank = call.bank /\ info = call.info

\* the case: device info on a bank whose flags a protection check has set
C23_Witness ==
    /\ call.fn = "get_stm32x_info"
    /\ ret = ERROR_OK
    /\ \E s \in DOMAIN bank.sectors : bank.sectors[s].is_protected = 0

----------------------------------------------------------------------------
(* The operations that leave the sector table alone: write, protect, the
   option byte cycle and device info, on one bank *)

InitFrame ==
    /\ InitIdle
    /\ \E b \in ProbedBanks, ob \in CachedOptions :
        /\ b[1].num_sectors = MaxSectors
        /\ ob.RDP = 0
        /\ bank = b[1]
        /\ info = WithOptions(b[2], ob)

\* one option byte operation, as the first operation on the bank
FrameOptionsEntry ==
    /\ call.fn = "none"
    /\ \/ stm32x_protect
       \/ stm32x_handle_options_write_command

\* writes, one after the other, on a bank no option byte operation has run on
FrameWrite ==
    /\ call.fn \in {"none", "stm32x_write", "get_stm32x_info"}
    /\ NextWrite

NextFrame ==
    \/ FrameWrite
    \/ stm32x_wait_status_busy
    \/ FrameOptionsEntry
    \/ PtAfterErase
    \/ OwAfterErase
    \/ OwAfterWrite
    \/ stm32x_read_options
    \/ stm32x_erase_options
    \/ stm32x_write_options
    \/ (call.fn \in {"none", "stm32x_write", "get_stm32x_info"} /\ get_stm32x_info)

SpecFrame == InitFrame /\ [][NextFrame]_vars

\* C24: no step of stm32x_write, stm32x_write_block, stm32x_protect, the
\* option byte routines, the options_write command or device info changes a
\* sector record (offset, size, erased flag, protected flag), whether the
\* operation succeeds or fails.
C24_SectorsUntouched == [][bank.sectors' = bank.sectors]_vars

\* the case: stm32x_protect has run a whole option byte cycle and returned success
C24_Witness ==
    /\ pc = "done"
    /\ call.fn = "stm32x_protect"
    /\ ret = ERROR_OK
    /\ C21_Locks # {}
    /\ bank.sectors = call.sectors

----------------------------------------------------------------------------
(* nucX1_erase *)

NUCX1_SYSCLK_PWRCON  == <<20480, 512>>      \* 0x50000200
NUCX1_SYSCLK_AHBCLK  == <<20480, 516>>      \* 0x50000204
NUCX1_SYSCLK_CLKSEL0 == <<20480, 528>>      \* 0x50000210
NUCX1_SYSCLK_CLKDIV  == <<20480, 536>>      \* 0x50000218
NUCX1_FLASH_ISPCON   == <<20480, 49152>>    \* 0x5000C000
NUCX1_FLASH_ISPADR   == <<20480, 49156>>    \* 0x5000C004
NUCX1_FLASH_ISPCMD   == <<20480, 49164>>    \* 0x5000C00C
NUCX1_FLASH_ISPTRG   == <<20480, 49168>>    \* 0x5000C010

PWRCON_XTL12M == 1
AHBCLK_ISP_EN == 4
ISPCON_ISPEN  == 1
ISPCON_ISPFF  == 64
ISPCMD_ERASE  == 34
ISPTRG_ISPGO  == 1

NUC_KEY1 == 89                              \* 0x59
NUC_KEY2 == 22                              \* 0x16
NUC_KEY3 == 136                             \* 0x88
NUC_LOCK == 0

\* timeout = 100
NUC_WAIT_ERASE == 100

\* values the power control, the ISP control and the ISP trigger register show
PwrconValues == {<<0, 0>>, <<0, 1>>}
IspconValues == {<<0, 0>>, <<0, 64>>}
IsptrgValues == {<<0, 0>>, <<0, 1>>}

\* locals of nucX1_erase
NeLocals(first, last) == [i |-> first, first |-> first, last |-> last, timeout |-> 0]

\* a register read of nucX1_erase that returns on failure; `next` gives the
\* position to go on at for the value read
NeRead(at, reg, values, next(_)) ==
    /\ pc = at
    /\ \E res \in AccessResults :
       \E v \in ReadValues(res, values, <<0, 0>>) :
        /\ log' = Append(log, Acc("r32", reg, v, res, <<>>))
        /\ IF res # ERROR_OK
           THEN Return(res)
           ELSE pc' = next(v) /\ UNCHANGED <<stack, ret>>
    /\ UNCHANGED <<halted, bank, info, wa, polls, timed_out, call, wr, wb, wsb, er>>

\* entry of nucX1_erase: the halted check
nucX1_erase ==
    /\ pc = "done"
    /\ ~IsStm32x
    /\ info.probed = 1
    /\ \E h \in BOOLEAN, first \in 0 .. bank.num_sectors - 1,
          last \in 0 .. bank.num_sectors - 1 :
        /\ first <= last
        /\ halted' = h
        /\ call' = [fn |-> "nucX1_erase", first |-> first, last |-> last,
                    sectors |-> bank.sectors]
        /\ IF ~h
           THEN /\ ret' = ERROR_TARGET_NOT_HALTED
                /\ UNCHANGED <<pc, stack, er>>
           ELSE /\ pc' = "ne_wrprot"
                /\ stack' = <<"done">>
                /\ ret' = ERROR_OK
                /\ er' = NeLocals(first, last)
    /\ log' = <<>>
    /\ polls' = 0
    /\ timed_out' = FALSE
    /\ UNCHANGED <<bank, info, wa, wr, wb, wsb>>

\* protected == 0: go through the unlock sequence
NeAfterWrprot(protected) == IF protected = <<0, 0>> THEN "ne_key1" ELSE "ne_reread"

NeWrprot == NeRead("ne_wrprot", NUCX1_SYS_WRPROT, WrprotValues, NeAfterWrprot)
NeKey1 == OptWrite("ne_key1", "w32", NUCX1_SYS_WRPROT, W(NUC_KEY1), "ne_key2")
NeKey2 == OptWrite("ne_key2", "w32", NUCX1_SYS_WRPROT, W(NUC_KEY2), "ne_key3")
NeKey3 == OptWrite("ne_key3", "w32", NUCX1_SYS_WRPROT, W(NUC_KEY3), "ne_reread")

\* the value read back is only printed
NeAfterReread(protected) == "ne_pwrcon"

NeReread == NeRead("ne_reread", NUCX1_SYS_WRPROT, WrprotValues, NeAfterReread)

\* (clockSelection & PWRCON_XTL12M) == 0: select the 12MHz clock
NeAfterPwrcon(clockSelection) ==
    IF ~HasBit(clockSelection[2], PWRCON_XTL12M) THEN "ne_xtl" ELSE "ne_clksel"

NePwrcon == NeRead("ne_pwrcon", NUCX1_SYSCLK_PWRCON, PwrconValues, NeAfterPwrcon)
NeXtl == OptWrite("ne_xtl", "w32", NUCX1_SYSCLK_PWRCON, W(PWRCON_XTL12M), "ne_clksel")
NeClksel == OptWrite("ne_clksel", "w32", NUCX1_SYSCLK_CLKSEL0, W(0), "ne_clkdiv")
NeClkdiv == OptWrite("ne_clkdiv", "w32", NUCX1_SYSCLK_CLKDIV, W(0), "ne_ahbclk")
NeAhbclk ==
    OptWrite("ne_ahbclk", "w32", NUCX1_SYSCLK_AHBCLK, W(AHBCLK_ISP_EN), "ne_ispcon")

NeAfterIspcon(dummy) == "ne_ispen"

NeIspcon == NeRead("ne_ispcon", NUCX1_FLASH_ISPCON, IspconValues, NeAfterIspcon)

\* dummy | ISPCON_ISPEN, dummy being the value just read
NeIspen ==
    /\ pc = "ne_ispen"
    /\ OptWrite("ne_ispen", "w32", NUCX1_FLASH_ISPCON,
                <<log[Len(log)].val[1], SetBit(log[Len(log)].val[2], ISPCON_ISPEN)>>,
                "ne_ispcmd")

NeIspcmd == OptWrite("ne_ispcmd", "w32", NUCX1_FLASH_ISPCMD, W(ISPCMD_ERASE), "ne_adr")

\* the address of sector i
NeAdr ==
    /\ pc = "ne_adr"
    /\ OptWrite("ne_adr", "w32", NUCX1_FLASH_ISPADR,
                Add32(bank.base, bank.sectors[er.i].offset), "ne_trg")

\* start the erase of the sector and set the budget of the poll loop
NeTrg ==
    /\ pc = "ne_trg"
    /\ \E res \in AccessResults :
        /\ log' = Append(log, Acc("w32", NUCX1_FLASH_ISPTRG, W(ISPTRG_ISPGO), res, <<>>))
        /\ IF res # ERROR_OK
           THEN Return(res) /\ er' = er
           ELSE /\ pc' = "ne_poll"
                /\ er' = [er EXCEPT !.timeout = NUC_WAIT_ERASE]
                /\ UNCHANGED <<stack, ret>>
    /\ polls' = 0
    /\ UNCHANGED <<halted, bank, info, wa, timed_out, call, wr, wb, wsb>>

\* one turn of the poll loop: read the trigger register, then leave the loop
\* (status 0), time out, or go round again
NePoll ==
    /\ pc = "ne_poll"
    /\ \E res \in AccessResults :
       \E status \in ReadValues(res, IsptrgValues, <<0, 0>>) :
        IF res # ERROR_OK
        THEN Return(res) /\ polls' = polls + 1 /\ UNCHANGED <<er, timed_out>>
        ELSE IF status = <<0, 0>>
        THEN /\ pc' = "ne_check"
             /\ polls' = polls + 1
             /\ UNCHANGED <<stack, ret, er, timed_out>>
        ELSE IF WsbTimedOut(er.timeout)
        THEN Return(ERROR_FAIL) /\ polls' = polls + 1 /\ timed_out' = TRUE /\ er' = er
        ELSE /\ er' = [er EXCEPT !.timeout = er.timeout - 1]
             /\ polls' = polls + 1
             /\ UNCHANGED <<pc, stack, ret, timed_out>>
    /\ UNCHANGED <<halted, bank, info, wa, log, call, wr, wb, wsb>>

\* i++ and the test of the for loop
NeNext(i, last) == IF i + 1 <= last THEN "ne_adr" ELSE "ne_lock"

\* check for failure: with the fail flag set go and clear it, else the sector
\* is erased
NeCheck ==
    /\ pc = "ne_check"
    /\ \E res \in AccessResults :
       \E status \in ReadValues(res, IspconValues, <<0, 0>>) :
        /\ log' = Append(log, Acc("r32", NUCX1_FLASH_ISPCON, status, res, <<>>))
        /\ IF res # ERROR_OK
           THEN Return(res) /\ UNCHANGED <<bank, er>>
           ELSE IF HasBit(status[2], ISPCON_ISPFF)
           THEN pc' = "ne_clear" /\ UNCHANGED <<stack, ret, bank, er>>
           ELSE /\ bank' = [bank EXCEPT !.sectors = ErMarkErased(bank.sectors, er.i)]
                /\ er' = [er EXCEPT !.i = er.i + 1]
                /\ pc' = NeNext(er.i, er.last)
                /\ UNCHANGED <<stack, ret>>
    /\ UNCHANGED <<halted, info, wa, polls, timed_out, call, wr, wb, wsb>>

\* write the fail flag back to clear it, then go to the next sector
NeClear ==
    /\ pc = "ne_clear"
    /\ \E res \in AccessResults :
        /\ log' = Append(log, Acc("w32", NUCX1_FLASH_ISPCON, W(ISPCON_ISPFF), res, <<>>))
        /\ IF res # ERROR_OK
           THEN Return(res) /\ er' = er
           ELSE /\ er' = [er EXCEPT !.i = er.i + 1]
                /\ pc' = NeNext(er.i, er.last)
                /\ UNCHANGED <<stack, ret>>
    /\ UNCHANGED <<halted, bank, info, wa, polls, timed_out, call, wr, wb, wsb>>

\* lock the device again; the result of the write is the result of the call
NeLock ==
    /\ pc = "ne_lock"
    /\ \E res \in AccessResults :
        /\ log' = Append(log, Acc("w32", NUCX1_SYS_WRPROT, W(NUC_LOCK), res, <<>>))
        /\ Return(res)
    /\ UNCHANGED <<halted, bank, info, wa, polls, timed_out, call, wr, wb, wsb, er>>

NucEraseSteps ==
    \/ NeWrprot
    \/ NeKey1
    \/ NeKey2
    \/ NeKey3
    \/ NeReread
    \/ NePwrcon
    \/ NeXtl
    \/ NeClksel
    \/ NeClkdiv
    \/ NeAhbclk
    \/ NeIspcon
    \/ NeIspen
    \/ NeIspcmd
    \/ NeAdr
    \/ NeTrg
    \/ NePoll
    \/ NeCheck
    \/ NeClear
    \/ NeLock

InitNucErase ==
    /\ InitIdle
    /\ bank = NucBank(MaxSectors)
    /\ info = NucInfo

\* one erase of the bank as the probe left it
NucEraseEntry ==
    /\ call.fn = "none"
    /\ nucX1_erase

NextNucErase ==
    \/ NucEraseEntry
    \/ NucEraseSteps

SpecNucErase == InitNucErase /\ [][NextNucErase]_vars

----------------------------------------------------------------------------
(* Claims on nucX1_erase, checked under SpecNucErase *)

\* the reads of the ISP control register that showed the fail flag
C25_FailFlagReads ==
    {i \in LogAt({"r32"}) :
        /\ log[i].addr = NUCX1_FLASH_ISPCON
        /\ log[i].res = ERROR_OK
        /\ HasBit(log[i].val[2], ISPCON_ISPFF)
        /\ \E j \in RegWrites : j < i /\ log[j].addr = NUCX1_FLASH_ISPTRG}

\* C25: a nucX1_erase that returns ERROR_OK has erased every sector of the
\* range: no sector's check after the poll showed the fail flag, and every
\* sector of the range is marked erased.
C25_SuccessMeansAllErased ==
    (pc = "done" /\ call.fn = "nucX1_erase" /\ ret = ERROR_OK)
        => /\ C25_FailFlagReads = {}
           /\ \A i \in call.first .. call.last : bank.sectors[i].is_erased = 1

----------------------------------------------------------------------------
(* The erase functions of both drivers, for the claims on their poll loops *)

InitPolls == InitErase \/ InitNucErase

\* each bank is erased by the driver it was configured with
NextPolls ==
    \/ (IsStm32x /\ NextErase)
    \/ (~IsStm32x /\ NextNucErase)

SpecPolls == InitPolls /\ [][NextPolls]_vars

\* the budget the poll loop in progress was entered with, and what is left of it
C26_Budget == IF pc = "wsb_read" THEN WAIT_ERASE ELSE NUC_WAIT_ERASE
C26_Left == IF pc = "wsb_read" THEN wsb.timeout ELSE er.timeout

\* a turn of a poll loop that stays in the loop
C26_Turn == pc \in {"wsb_read", "ne_poll"} /\ pc' = pc

\* C26: in stm32x_wait_status_busy and in the poll loop of nucX1_erase, with
\* budget N, the reads made so far and the budget left add up to N, so at
\* most N + 1 reads are made (101 for the erase loops); every turn that stays
\* in the loop is one read more; the loop gives up with ERROR_FAIL exactly on
\* read N + 1; and a loop still running has seen no transport error, which
\* ends it at once with that error.
C26_PollLoopsBounded ==
    /\ [](/\ polls <= WAIT_ERASE + 1
          /\ pc \in {"wsb_read", "ne_poll"} =>
                /\ polls + C26_Left = C26_Budget
                /\ polls <= C26_Budget
                /\ ret = ERROR_OK
                /\ ~timed_out
          /\ timed_out => polls = WAIT_ERASE + 1 /\ ret = ERROR_FAIL)
    /\ [][/\ C26_Turn => polls' = polls + 1
          /\ (pc \in {"wsb_read", "ne_poll"} /\ pc' # pc /\ ret' \in TransportErrors)
                => polls' <= polls + 1 /\ ~timed_out']_vars

\* the case: the poll loop of nucX1_erase has given up on its 101st read
C26_Witness ==
    /\ call.fn = "nucX1_erase"
    /\ timed_out
    /\ polls = NUC_WAIT_ERASE + 1
    /\ ret = ERROR_FAIL

----------------------------------------------------------------------------
(* The chunk loop of stm32x_write_block *)

\* the block write with the sequential scheduling of the driver: a call that
\* has begun goes on to its next step
SpecWriteBlockFair == SpecWriteBlock /\ WF_vars(WriteBlockSteps)

\* the chunks staged into the data buffer and the runs of the write code
C27_Staged == SelectSeq(log, LAMBDA e : e.op = "wbuf" /\ e.arg[1] = "data")
C27_Runs == SelectSeq(log, LAMBDA e : e.op = "run")

\* the size of the data buffer that was granted
C27_Granted == StagingAllocs[Len(StagingAllocs)].val[2]

\* bytes of the chunks staged before chunk i
RECURSIVE C27_BytesBefore(_)
C27_BytesBefore(i) ==
    IF i <= 1 THEN 0 ELSE C27_BytesBefore(i - 1) + C27_Staged[i - 1].val[2]

C27_Min(a, b) == IF a < b THEN a ELSE b

\* C27: every chunk of stm32x_write_block stages min(remaining, buffer_size / 2)
\* half-words, at least one and no more bytes than the granted data buffer
\* holds; each chunk goes to the destination of the previous chunk plus the
\* bytes of the previous chunk; the remaining count drops at every turn of the
\* loop, the call returns, and after a successful call the chunks add up to the
\* requested count.
C27_ChunkLoop ==
    /\ [](call.fn = "stm32x_write_block" =>
            /\ Len(C27_Runs) <= Len(C27_Staged)
            /\ Len(C27_Staged) <= Len(C27_Runs) + 1
            /\ \A i \in 1 .. Len(C27_Staged) :
                LET remaining == call.count - C27_BytesBefore(i) \div 2
                    bytes == C27_Staged[i].val[2]
                IN  /\ remaining > 0
                    /\ C27_Staged[i].val
                          = W(2 * C27_Min(remaining, C27_Granted \div 2))
                    /\ bytes >= 2
                    /\ bytes <= C27_Granted
                    /\ C27_Staged[i].arg[2] = C27_BytesBefore(i)
            /\ \A i \in 1 .. Len(C27_Runs) :
                /\ C27_Runs[i].arg[1] = C27_Staged[i].addr
                /\ C27_Runs[i].arg[2]
                      = Add32(Add32(bank.base, call.offset), C27_BytesBefore(i))
                /\ C27_Runs[i].arg[3] * 2 = C27_Staged[i].val[2]
            /\ (pc = "done" /\ ret = ERROR_OK) =>
                C27_BytesBefore(Len(C27_Staged) + 1) = 2 * call.count)
    /\ [][(pc = "wb_run" /\ pc' = "wb_stage") =>
            /\ wb'.count < wb.count
            /\ wb'.count > 0]_vars
    /\ (call.fn = "stm32x_write_block" /\ pc # "done") ~> (pc = "done")

C27_Witness ==
    /\ WriteBlockReturned
    /\ ret = ERROR_OK
    /\ Len(C27_Staged) = 3
    /\ C27_Runs[3].arg[3] < C27_Runs[2].arg[3]

----------------------------------------------------------------------------
(* Sector erase that fails inside a range *)

\* a bank with room for a range of three sectors that is not the whole bank
RangeBanks == {<<XlBank1(MaxSectors + 1), XlBank1Info>>}

InitEraseRange ==
    /\ InitIdle
    /\ \E b \in RangeBanks :
        /\ bank = b[1]
        /\ info = b[2]

SpecEraseRange == InitEraseRange /\ [][NextErase]_vars

\* the per-sector erase returns with a failure while it works on sector k
C28_FailsAt(k) ==
    /\ call.fn = "stm32x_erase"
    /\ pc \in {"er_per", "er_ar", "er_strt", "er_after_wait"}
    /\ pc' = "done"
    /\ ret' # ERROR_OK
    /\ er.i = k

\* the writes of FLASH_PER | FLASH_STRT in a record of accesses
C28_Starts(l) ==
    {i \in DOMAIN l : /\ l[i].addr = BankReg(STM32_FLASH_CR)
                      /\ l[i].val = W(FLASH_PER + FLASH_STRT)}

\* C28: when stm32x_erase(first, last) on a partial range fails at sector k, by a
\* transport error or a failed poll, the sectors first .. k - 1 are marked
\* erased, the sectors k .. last keep the erased flag they had before the call,
\* and no erase command was issued for a sector after k.
C28_FailureKeepsProgress ==
    [][\A k \in 0 .. MaxSectors :
        C28_FailsAt(k) =>
            /\ k \in call.first .. call.last
            /\ \A s \in call.first .. k - 1 : bank'.sectors[s].is_erased = 1
            /\ \A s \in k .. call.last :
                bank'.sectors[s].is_erased = call.sectors[s].is_erased
            /\ \A i \in DOMAIN log' :
                log'[i].addr = BankReg(STM32_FLASH_AR) =>
                    \E s \in call.first .. k :
                        log'[i].val = Add32(bank.base, bank.sectors[s].offset)
            /\ Cardinality(C28_Starts(log')) <= k - call.first + 1]_vars

\* the case: the range 1 .. 3 of a bank of more sectors, failed at sector 2
\* after sector 1 was erased, with sectors 2 and 3 not known to be erased
C28_Witness ==
    /\ pc = "done"
    /\ call.fn = "stm32x_erase"
    /\ ret # ERROR_OK
    /\ call.first = 1
    /\ call.last = 3
    /\ Cardinality(C28_Starts(log)) = 2
    /\ call.sectors[1].is_erased = -1
    /\ bank.sectors[1].is_erased = 1
    /\ bank.sectors[2].is_erased = -1
    /\ bank.sectors[3].is_erased = -1

----------------------------------------------------------------------------
(* The unlock sequence and the order of the erase commands *)

\* erases of any range, one after the other, on a bank nothing was written to
KeysErase ==
    /\ call.fn \in {"none", "stm32x_erase"}
    /\ NextErase

\* a probed bank that is written to, or erased
NextKeys ==
    \/ FrameWrite
    \/ KeysErase

SpecKeys == InitWrite /\ [][NextKeys]_vars

\* the control and address registers, of the bank and of the first controller
C29_Locked ==
    {STM32_FLASH_CR, STM32_FLASH_AR, BankReg(STM32_FLASH_CR), BankReg(STM32_FLASH_AR)}

\* the register writes of the call but for the clearing of status flags
C29_Commands ==
    SelectSeq(log, LAMBDA e : e.op = "w32" /\ e.addr # BankReg(STM32_FLASH_SR))

\* the commands of the erase of sector s
C29_EraseOf(s) ==
    << <<BankReg(STM32_FLASH_CR), W(FLASH_PER)>>,
       <<BankReg(STM32_FLASH_AR), Add32(bank.base, bank.sectors[s].offset)>>,
       <<BankReg(STM32_FLASH_CR), W(FLASH_PER + FLASH_STRT)>> >>

RECURSIVE C29_EraseFrom(_, _)
C29_EraseFrom(s, last) ==
    IF s > last THEN <<>> ELSE C29_EraseOf(s) \o C29_EraseFrom(s + 1, last)

\* the commands of a per-sector erase that runs to its end
C29_Expected ==
    << <<BankReg(STM32_FLASH_KEYR), KEY1>>, <<BankReg(STM32_FLASH_KEYR), KEY2>> >>
        \o C29_EraseFrom(call.first, call.last)
        \o << <<BankReg(STM32_FLASH_CR), W(FLASH_LOCK)>> >>

\* C29: stm32x_erase, stm32x_mass_erase and stm32x_write write KEY1 and then KEY2
\* to the key register, both with success, before any write to the control or
\* the address register; the per-sector erase then takes the sectors in
\* ascending order, each with the write of FLASH_PER, of the address base +
\* sector offset, of FLASH_PER | FLASH_STRT, and the wait for the flash.
C29_UnlockThenEraseInOrder ==
    /\ [](call.fn \in {"stm32x_erase", "stm32x_write"} =>
            \A i \in RegWrites :
                log[i].addr \in C29_Locked =>
                    /\ i >= 3
                    /\ log[1] = Acc("w32", BankReg(STM32_FLASH_KEYR), KEY1, ERROR_OK, <<>>)
                    /\ log[2] = Acc("w32", BankReg(STM32_FLASH_KEYR), KEY2, ERROR_OK, <<>>))
    /\ []((call.fn = "stm32x_erase" /\ ~C9_FullRange) =>
            /\ Len(C29_Commands) <= Len(C29_Expected)
            /\ \A i \in 1 .. Len(C29_Commands) :
                /\ <<C29_Commands[i].addr, C29_Commands[i].val>> = C29_Expected[i]
                /\ i < Len(C29_Commands) => C29_Commands[i].res = ERROR_OK)
    /\ [][call.fn = "stm32x_erase" =>
            /\ (pc = "er_strt" /\ pc' # "done") =>
                    /\ pc' = "wsb_read"
                    /\ wsb'.timeout = WAIT_ERASE
                    /\ Head(stack') = "er_after_wait"
            /\ (pc' = "er_after_wait" /\ pc # pc') => pc = "wsb_read"
            /\ (pc' = "er_per" /\ pc # pc') => pc \in {"er_key2", "er_after_wait"}
            /\ (pc' = "er_lock" /\ pc # pc') => pc = "er_after_wait"]_vars

\* the case: the sectors 1 and 2 of a bank erased, and the flash locked again
C29_Witness ==
    /\ pc = "done"
    /\ call.fn = "stm32x_erase"
    /\ call.first = 1
    /\ call.last = 2
    /\ ret = ERROR_OK
    /\ Len(C29_Commands) = 9

----------------------------------------------------------------------------
(* The controller a write on the second bank talks to *)

\* the registers of the flash controller the bank belongs to
C30_BankRegisters ==
    {BankReg(STM32_FLASH_KEYR), BankReg(STM32_FLASH_CR), BankReg(STM32_FLASH_SR)}

\* C30: on a bank with a non-zero register offset every write of stm32x_write
\* and stm32x_write_block to a flash controller register goes to the register
\* at the bank's offset, the write code is handed that offset, and a successful
\* stm32x_write ends with FLASH_LOCK written to the control register of the
\* controller it unlocked.
C30_WritesReachBankController ==
    (call.fn = "stm32x_write" /\ info.register_offset # 0) =>
        /\ \A i \in LogAt({"w32"}) : log[i].addr \in C30_BankRegisters
        /\ \A i \in LogAt({"run"}) : log[i].arg[4] = info.register_offset
        /\ (pc = "done" /\ ret = ERROR_OK /\ log # <<>>) =>
                /\ log[1].addr = BankReg(STM32_FLASH_KEYR)
                /\ log[Len(log)].addr = BankReg(STM32_FLASH_CR)
                /\ log[Len(log)].val = W(FLASH_LOCK)

----------------------------------------------------------------------------
(* The protection bits stm32x_protect commits *)

\* the protection bit that governs sector s: one bit for ppage_size sectors,
\* and on high density devices bit 31 for every sector from 62 on
C31_Bit(s) ==
    IF info.ppage_size = 2 /\ s > 61 THEN 31 ELSE s \div info.ppage_size

\* bit b of the protection words in the option byte cache
C31_Committed(b) ==
    HasBit(info.option_bytes.protection[b \div 8 + 1] % 256, 2 ^ (b % 8))

\* C31: after a successful stm32x_protect(set, first, last) the protection bit
\* of every sector of first .. last is clear in the committed option bytes when
\* set is true, and set when set is false, also when first or last + 1 is not a
\* multiple of ppage_size.
C31_RangeCommitted ==
    (/\ pc = "done"
     /\ call.fn = "stm32x_protect"
     /\ halted
     /\ Len(log) > 1
     /\ ret = ERROR_OK)
        => \A s \in call.first .. call.last : C31_Committed(C31_Bit(s)) <=> ~call.set

----------------------------------------------------------------------------
(* What a failed probe leaves of the bank *)

\* a probe reads the identifier and fails: the read failed on the transport,
\* or the identifier is not a known one
C32_ProbeFails ==
    /\ call'.fn \in {"stm32x_probe", "nucX1_probe"}
    /\ log' # <<>>
    /\ ret' # ERROR_OK

\* C32: a probe that fails on the identifier read or on an unrecognised
\* identifier leaves the bank as it was but for the probed flag, which is
\* clear: sector table, base, size, register offset, ppage_size and dual-bank
\* flag are unchanged.
C32_FailedProbeKeepsBank ==
    [][C32_ProbeFails =>
        /\ bank' = bank
        /\ info' = [info EXCEPT !.probed = 0]]_vars

----------------------------------------------------------------------------
(* The unlock check of nucX1_erase *)

\* the reads of the write protection register in the record
C33_WrprotReads ==
    {i \in LogAt({"r32"}) : log[i].addr = NUCX1_SYS_WRPROT}

\* C33: nucX1_erase writes the erase command and the erase trigger only after
\* the write protection register was read back as 1 (unlocked) following the
\* first read and the unlock sequence; a device read back as still protected
\* gets no erase trigger.
C33_EraseOnlyWhenUnlocked ==
    call.fn = "nucX1_erase" =>
        \A i \in RegWrites :
            log[i].addr \in {NUCX1_FLASH_ISPCMD, NUCX1_FLASH_ISPTRG} =>
                \E j \in C33_WrprotReads :
                    /\ j < i
                    /\ \E k \in C33_WrprotReads : k < j
                    /\ log[j].res = ERROR_OK
                    /\ log[j].val = W(1)

----------------------------------------------------------------------------
(* The size of the bank against the size the device reports *)

\* values of the 16-bit flash size register, in kbytes: small and large
\* devices, the sizes around the 512 kbytes of the first xl bank, and 0xffff
SizeRegisterValues == {0, 2, 4, 16, 128, 256, 511, 512, 513, 516, 768, 1024, 65535}

\* the size computation of stm32x_probe for a known identifier, a bank base
\* and a read of the size register: num_pages and bank->size
PrSize ==
    /\ pc = "done"
    /\ \E code \in DOMAIN PrFamilies, base \in {<<2048, 0>>, BANK1_BASE},
          sres \in AccessResults :
       \E kb \in ReadValues(sres, SizeRegisterValues, 0) :
        LET n == PrNumPages(code, base, sres, kb)
        IN  /\ call' = [fn |-> "stm32x_probe", code |-> code, base |-> base,
                        num_sectors |-> n, size |-> n * PrFamily(code).page_size]
            /\ log' = <<Acc("r16", FLASH_SIZE_REG, kb, sres, <<>>)>>
    /\ ret' = ERROR_OK
    /\ UNCHANGED <<halted, bank, info, wa, polls, timed_out, pc, stack, wr, wb, wsb, er>>

InitSize ==
    /\ InitIdle
    /\ bank = ConfiguredBank(<<2048, 0>>)
    /\ info = ConfiguredInfo(0)

NextSize == PrSize

SpecSize == InitSize /\ [][NextSize]_vars

\* the size register was read, and held a size
C34_Sized ==
    /\ call.fn = "stm32x_probe"
    /\ log[1].res = ERROR_OK
    /\ log[1].val # 65535

\* C34: after a successful stm32x_probe the bank size, num_sectors times the
\* page size, is no more than the reported flash size in kbytes times 1024; the
\* second bank of the dual-bank device (identifier 0x430, base 0x08080000) has
\* (reported size - 512) / 2 sectors, without wrap-around, and the first bank is
\* no larger than the reported size.
C34_BankWithinReportedSize ==
    C34_Sized =>
        /\ call.size <= log[1].val * 1024
        /\ (PrIsXl(call.code) /\ call.base = BANK1_BASE) =>
                call.num_sectors * 2 <= log[1].val - 512

----------------------------------------------------------------------------
(* The mass_erase commands of both drivers *)

\* the command line has a bank argument, and the bank is found
McArguments == {<<0, ERROR_OK>>, <<1, ERROR_OK>>, <<1, ERROR_FAIL>>}

\* CMD_ARGC >= 1 and flash_command_get_bank succeeded: the routine is called
McCalls(a) == a[1] >= 1 /\ a[2] = ERROR_OK

\* what the command returns when the routine is not called
McEarlyResult(a) == IF a[1] < 1 THEN ERROR_OK ELSE a[2]

\* set all sectors as erased
McAllErased(sectors) == [s \in DOMAIN sectors |-> [sectors[s] EXCEPT !.is_erased = 1]]

\* faulty variant: the sectors are marked whatever the routine returned
McMarks_Always(retval) == TRUE

\* if (retval == ERROR_OK), after the routine
McMarks(retval) == retval = ERROR_OK

\* entry of the stm32x mass_erase command: the arguments, then stm32x_mass_erase
stm32x_handle_mass_erase_command ==
    /\ pc = "done"
    /\ IsStm32x
    /\ \E h \in BOOLEAN, a \in McArguments :
        /\ halted' = h
        /\ call' = [fn |-> "stm32x_handle_mass_erase_command", ran |-> McCalls(a),
                    sectors |-> bank.sectors]
        /\ IF McCalls(a)
           THEN /\ pc' = "me_entry"
                /\ stack' = <<"mc_after_erase", "done">>
                /\ ret' = ERROR_OK
           ELSE /\ ret' = McEarlyResult(a)
                /\ UNCHANGED <<pc, stack>>
    /\ log' = <<>>
    /\ polls' = 0
    /\ timed_out' = FALSE
    /\ UNCHANGED <<bank, info, wa, wr, wb, wsb, er>>

\* back from stm32x_mass_erase: mark the sectors on success, return retval
McAfterErase ==
    /\ pc = "mc_after_erase"
    /\ bank' = IF McMarks(ret)
               THEN [bank EXCEPT !.sectors = McAllErased(bank.sectors)]
               ELSE bank
    /\ Return(ret)
    /\ UNCHANGED <<halted, info, wa, log, polls, timed_out, call, wr, wb, wsb, er>>

\* nucX1_mass_erase: the halted check, and nothing else
nucX1_mass_erase(h) == IF ~h THEN ERROR_TARGET_NOT_HALTED ELSE ERROR_OK

\* if (retval == ERROR_OK), after the routine of the nucX1 driver
NcMarks(retval) == retval = ERROR_OK

\* the nucX1 mass_erase command, from the arguments to its return
nucX1_handle_mass_erase_command ==
    /\ pc = "done"
    /\ ~IsStm32x
    /\ \E h \in BOOLEAN, a \in McArguments :
        /\ halted' = h
        /\ call' = [fn |-> "nucX1_handle_mass_erase_command", ran |-> McCalls(a),
                    sectors |-> bank.sectors]
        /\ IF McCalls(a)
           THEN /\ ret' = nucX1_mass_erase(h)
                /\ bank' = IF NcMarks(nucX1_mass_erase(h))
                           THEN [bank EXCEPT !.sectors = McAllErased(bank.sectors)]
                           ELSE bank
           ELSE /\ ret' = McEarlyResult(a)
                /\ bank' = bank
    /\ log' = <<>>
    /\ polls' = 0
    /\ timed_out' = FALSE
    /\ UNCHANGED <<info, wa, pc, stack, wr, wb, wsb, er>>

\* probed banks of both drivers, fresh from the probe or with a sector in use
InitMass ==
    /\ InitIdle
    /\ \E b \in ProbedBanks \cup {<<NucBank(MaxSectors), NucInfo>>}, used \in BOOLEAN :
        /\ b[1].num_sectors = MaxSectors
        /\ bank = IF used THEN [b[1] EXCEPT !.sectors = UsedSectors(@)] ELSE b[1]
        /\ info = b[2]

NextMass ==
    \/ stm32x_handle_mass_erase_command
    \/ nucX1_handle_mass_erase_command
    \/ MassEraseSteps
    \/ stm32x_wait_status_busy
    \/ McAfterErase

SpecMass == InitMass /\ [][NextMass]_vars

\* a mass_erase command has returned
C35_Returned ==
    /\ pc = "done"
    /\ call.fn \in {"stm32x_handle_mass_erase_command", "nucX1_handle_mass_erase_command"}

\* the mass erase routine was called and returned success
C35_Succeeded == call.ran /\ ret = ERROR_OK

\* C35: a mass_erase command marks every sector erased if and only if the mass
\* erase routine returned success, and leaves every erased flag as it was
\* otherwise; the routine of the nucX1 driver on a halted target writes no
\* target register, returns success, and the command marks all sectors erased.
C35_MarkedIffSucceeded ==
    /\ [](C35_Returned =>
            /\ C35_Succeeded => bank.sectors = McAllErased(call.sectors)
            /\ ~C35_Succeeded => bank.sectors = call.sectors
            /\ (call.fn = "nucX1_handle_mass_erase_command" /\ call.ran /\ halted) =>
                    /\ log = <<>>
                    /\ ret = ERROR_OK
                    /\ \A s \in DOMAIN bank.sectors : bank.sectors[s].is_erased = 1)
    /\ [][(call'.fn \in {"stm32x_handle_mass_erase_command",
                         "nucX1_handle_mass_erase_command"}
           /\ bank'.sectors # bank.sectors)
            => /\ pc' = "done"
               /\ call'.ran
               /\ ret' = ERROR_OK]_vars

\* the case: the nucX1 command on a halted target, with sectors not erased
\* before, and nothing written to the target
C35_Witness ==
    /\ C35_Returned
    /\ call.fn = "nucX1_handle_mass_erase_command"
    /\ call.ran
    /\ halted
    /\ log = <<>>
    /\ \E s \in DOMAIN call.sectors : call.sectors[s].is_erased = -1
    /\ \A s \in DOMAIN bank.sectors : bank.sectors[s].is_erased = 1

----------------------------------------------------------------------------
(* The lock and unlock commands, and what the option byte commands return *)

\* entry of the lock and unlock commands, given a bank: the two checks, then
\* stm32x_erase_options
OptionCommand(fn, back) ==
    /\ pc = "done"
    /\ IsStm32x
    /\ info.probed = 1
    /\ \E h \in BOOLEAN :
        /\ halted' = h
        /\ call' = [fn |-> fn, sectors |-> bank.sectors]
        /\ IF ~h
           THEN ret' = ERROR_TARGET_NOT_HALTED /\ UNCHANGED <<pc, stack>>
           ELSE IF ~OperationSupported
           THEN ret' = ERROR_FLASH_OPERATION_FAILED /\ UNCHANGED <<pc, stack>>
           ELSE ret' = ERROR_OK /\ CallEraseOptions(back)
    /\ log' = <<>>
    /\ polls' = 0
    /\ timed_out' = FALSE
    /\ UNCHANGED <<bank, info, wa, wr, wb, wsb, er>>

stm32x_handle_lock_command == OptionCommand("lock", "lk_after_erase")

\* back from stm32x_erase_options: a failure is printed and the command returns
\* ERROR_OK; otherwise set readout protection (RDP = 0) and write the options
LkAfterErase ==
    /\ pc = "lk_after_erase"
    /\ IF ret # ERROR_OK
       THEN Return(ERROR_OK) /\ info' = info
       ELSE /\ info' = [info EXCEPT !.option_bytes.RDP = 0]
            /\ pc' = "wo_key1"
            /\ stack' = <<"lk_after_write">> \o stack
            /\ ret' = ret
    /\ UNCHANGED <<halted, bank, wa, log, polls, timed_out, call, wr, wb, wsb, er>>

\* back from stm32x_write_options: "failed to lock device" or "locked", and
\* ERROR_OK either way
LkAfterWrite ==
    /\ pc = "lk_after_write"
    /\ Return(ERROR_OK)
    /\ UNCHANGED <<halted, bank, info, wa, log, polls, timed_out, call, wr, wb, wsb, er>>

stm32x_handle_unlock_command == OptionCommand("unlock", "ul_after_erase")

\* back from stm32x_erase_options: a failure is printed and the command returns
\* ERROR_OK; otherwise the options are written as the erase left them
UlAfterErase ==
    /\ pc = "ul_after_erase"
    /\ IF ret # ERROR_OK
       THEN Return(ERROR_OK)
       ELSE /\ pc' = "wo_key1"
            /\ stack' = <<"ul_after_write">> \o stack
            /\ ret' = ret
    /\ UNCHANGED <<halted, bank, info, wa, log, polls, timed_out, call, wr, wb, wsb, er>>

\* back from stm32x_write_options: a message, and ERROR_OK either way
UlAfterWrite ==
    /\ pc = "ul_after_write"
    /\ Return(ERROR_OK)
    /\ UNCHANGED <<halted, bank, info, wa, log, polls, timed_out, call, wr, wb, wsb, er>>

\* one option byte command on each bank and cache of InitOptions
CommandsEntry ==
    /\ call.fn = "none"
    /\ \/ stm32x_handle_lock_command
       \/ stm32x_handle_unlock_command
       \/ stm32x_handle_options_write_command

NextCommands ==
    \/ CommandsEntry
    \/ LkAfterErase
    \/ LkAfterWrite
    \/ UlAfterErase
    \/ UlAfterWrite
    \/ OwAfterErase
    \/ OwAfterWrite
    \/ stm32x_read_options
    \/ stm32x_erase_options
    \/ stm32x_write_options
    \/ stm32x_wait_status_busy

SpecCommands == InitOptions /\ [][NextCommands]_vars

\* where the commands are when stm32x_erase_options and stm32x_write_options
\* have returned
C36_AfterErase == {"lk_after_erase", "ul_after_erase", "ow_after_erase"}
C36_AfterWrite == {"lk_after_write", "ul_after_write", "ow_after_write"}

\* C36: the lock, unlock and options_write commands return a failure whenever
\* stm32x_erase_options or stm32x_write_options failed during the command, and
\* success only when the whole cycle of erase and write succeeded.
C36_FailureIsReturned ==
    [][(pc \in C36_AfterErase \cup C36_AfterWrite /\ pc' = "done") =>
        (ret' = ERROR_OK <=> (pc \in C36_AfterWrite /\ ret = ERROR_OK))]_vars

----------------------------------------------------------------------------
(* The protected flags nucX1_protect_check sets *)

\* nucX1_protect_check has returned
C37_Returned == pc = "done" /\ call.fn = "nucX1_protect_check"

\* the target was halted and the write protection register was read
C37_Read == halted /\ log # <<>> /\ log[1].res = ERROR_OK

\* C37: nucX1_protect_check on a halted target gives every sector the same
\* protected flag, 1 when the write protection register reads 0 and 0 for every
\* other value; when the target is not halted or the read fails no sector flag
\* changes.
C37_OneFlagForAllSectors ==
    C37_Returned =>
        /\ C37_Read =>
            /\ ret = ERROR_OK
            /\ \A s \in DOMAIN bank.sectors :
                bank.sectors[s] =
                    [call.sectors[s] EXCEPT
                        !.is_protected = IF log[1].val = W(0) THEN 1 ELSE 0]
        /\ ~C37_Read =>
            /\ ret # ERROR_OK
            /\ bank.sectors = call.sectors

\* the case: the register read as 2, and sectors that were protected before
C37_Witness ==
    /\ C37_Returned
    /\ C37_Read
    /\ log[1].val = W(2)
    /\ \A s \in DOMAIN bank.sectors :
        call.sectors[s].is_protected = 1 /\ bank.sectors[s].is_protected = 0

====
